---- MODULE Spec2Model ----
(***************************************************************************)
(* The process-monitor view of agenttrace (src/unnamed/part_001): the      *)
(* agent row store and its event handlers, the three on-demand caches and  *)
(* their fetches, the mode machine and the mount/unmount lifecycle.        *)
(*                                                                         *)
(* One JavaScript task (an event handler, a timer callback, a click, the   *)
(* settling of one fetch with its then/catch/finally chain) is one action. *)
(* The module state of the view is the set of variables below; the roster  *)
(* ctx.agents is owned by the host and changes by the Host* actions.       *)
(***************************************************************************)
EXTENDS Integers, Sequences, FiniteSets, TLC

\* ---------------------------------------------------------------- constants

STUCK_MS == 3 * 60 * 1000
LONG_MS == 60 * 1000
TICK_MS == 1000
TL_WINDOW == 8 * 60 * 60 * 1000

\* ------------------------------------------------------------------- bounds

\* the clock advances in steps of StepMs, MaxSteps times at most
MaxSteps == 2
\* fetches that may be outstanding at the same time, all caches together
MaxInflight == 2
\* cap of the local error counter of a row
MaxErr == 2
\* largest error count the host reports in a roster entry
MaxHostErr == 1

StepMs == 200 * TICK_MS
Ids == {"s1", "s2"}
Statuses == {"idle", "active"}
Data == {"d1"}
Retros == {"r1"}
Modes == {"list", "timeline", "dag"}
Times == {k * StepMs : k \in 1..MaxSteps}

\* an optional value: null/undefined is the empty tuple, a value x is <<x>>
None == <<>>
Some(x) == <<x>>

VARIABLES
  mounted,       \* _ctx !== null (the view is mounted)
  tick,          \* _tick !== null: the render interval is set
  tlTick,        \* _tlTick !== null: the timeline refresh interval is set
  unsubs,        \* _unsubs: the live subscriptions, by event type, and "keydown"
  agents,        \* ctx.agents, the host's live roster, in roster order
  rows,          \* _rows
  expanded,      \* _expanded: id -> None (pending marker) or Some(data)
  tlData,        \* _tlData
  tlLoading,     \* _tlLoading
  tlZoom,        \* _tlZoom: None (the full window) or Some([start, end])
  drag,          \* the drag of a gesture in progress: None or Some([startX, width])
  statsLoading,  \* _statsLoading
  retroData,     \* _retroData: id -> None (null, unavailable) or Some(payload)
  retroLoading,  \* _retroLoading
  dagSel,        \* _dagSel
  mode,          \* _mode
  fetches,       \* outstanding fetches of toggleExpand/mount/events, renderStats
  tlBatches,     \* outstanding fetches of loadTimelineData, one batch per call
  now,           \* Date.now()
  last,          \* the last event delivered to the view
  retroIssued,   \* retro fetches issued for each id since the last mount
  out            \* the last value a render computed: function, input, value

vars == <<mounted, tick, tlTick, unsubs, agents, rows, expanded, tlData,
          tlLoading, tlZoom, drag, statsLoading,
          retroData, retroLoading, dagSel, mode, fetches, tlBatches, now,
          last, retroIssued, out>>

\* the state as one record, so that a handler is a function from state to state
St ==
  [mounted |-> mounted, tick |-> tick, tlTick |-> tlTick, unsubs |-> unsubs,
   agents |-> agents, rows |-> rows, expanded |-> expanded,
   tlData |-> tlData, tlLoading |-> tlLoading, tlZoom |-> tlZoom,
   drag |-> drag,
   statsLoading |-> statsLoading,
   retroData |-> retroData, retroLoading |-> retroLoading, dagSel |-> dagSel,
   mode |-> mode, fetches |-> fetches, tlBatches |-> tlBatches,
   retroIssued |-> retroIssued]

\* -------------------------------------------------------------- map helpers

MapSet(m, k, v) == [x \in DOMAIN m \cup {k} |-> IF x = k THEN v ELSE m[x]]
MapDel(m, k) == [x \in DOMAIN m \ {k} |-> m[x]]
EmptyMap == [x \in {} |-> None]

RECURSIVE SumOver(_, _)
SumOver(f, S) ==
  IF S = {} THEN 0
  ELSE LET x == CHOOSE y \in S : TRUE IN f[x] + SumOver(f, S \ {x})

\* ------------------------------------------------------------------ roster

RosterIds(ags) == {ags[i].id : i \in 1..Len(ags)}

\* ctx.agents.find(a => a.id === id): None when there is no such agent
FindAgent(ags, id) ==
  LET hits == {i \in 1..Len(ags) : ags[i].id = id}
  IN IF hits = {} THEN None
     ELSE Some(ags[CHOOSE i \in hits : \A j \in hits : i <= j])

\* JavaScript truthiness of an optional timestamp
Truthy(ts) == ts # None /\ ts[1] # 0


\* --------------------------------------------------------------- row store

\* an AgentState of the roster with the extension fields the view reads
Agent(id, status, tsa, ec) ==
  [id |-> id, status |-> status, parentId |-> None,
   startedAt |-> None, lastActivityAt |-> 0,
   toolStartedAt |-> tsa, errorCount |-> ec, turnCount |-> None]

\* the fields of row.agent the view reads back from a row
Snapshot(a) == [id |-> a.id, status |-> a.status]

rowFromAgent(a) ==
  [agent |-> Snapshot(a),
   toolStartedAt |-> IF Truthy(a.toolStartedAt) THEN a.toolStartedAt ELSE None,
   errorCount |-> IF a.errorCount # None THEN a.errorCount[1] ELSE 0,
   turnCount |-> IF a.turnCount # None THEN a.turnCount[1] ELSE 0]

\* syncRow reading the counters with || in place of ??
syncRow_or(s, id) ==
  IF id \notin DOMAIN s.rows \/ ~s.mounted THEN s
  ELSE LET fa == FindAgent(s.agents, id)
       IN IF fa = None THEN s
          ELSE LET a == fa[1]
                   row == s.rows[id]
               IN [s EXCEPT !.rows[id] =
                     [agent |-> Snapshot(a),
                      toolStartedAt |->
                        IF Truthy(a.toolStartedAt) THEN a.toolStartedAt ELSE None,
                      errorCount |->
                        IF a.errorCount # None /\ a.errorCount # Some(0)
                        THEN a.errorCount[1] ELSE row.errorCount,
                      turnCount |->
                        IF a.turnCount # None /\ a.turnCount # Some(0)
                        THEN a.turnCount[1] ELSE row.turnCount]]

syncRow(s, id) ==
  IF id \notin DOMAIN s.rows \/ ~s.mounted THEN s
  ELSE LET fa == FindAgent(s.agents, id)
       IN IF fa = None THEN s
          ELSE LET a == fa[1]
                   row == s.rows[id]
               IN [s EXCEPT !.rows[id] =
                     [agent |-> Snapshot(a),
                      toolStartedAt |->
                        IF Truthy(a.toolStartedAt) THEN a.toolStartedAt ELSE None,
                      errorCount |->
                        IF a.errorCount # None THEN a.errorCount[1]
                        ELSE row.errorCount,
                      turnCount |->
                        IF a.turnCount # None THEN a.turnCount[1]
                        ELSE row.turnCount]]

\* the state getOrCreate leaves; it returns a row iff id is in DOMAIN rows then
getOrCreate(s, id) ==
  IF ~s.mounted THEN s
  ELSE IF id \in DOMAIN s.rows THEN s
  ELSE LET fa == FindAgent(s.agents, id)
       IN IF fa = None THEN s
          ELSE [s EXCEPT !.rows = MapSet(@, id, rowFromAgent(fa[1]))]

\* ------------------------------------------------------------------ fetches

FetchKinds == {"expand", "stats", "retro"}
FetchKeys == FetchKinds \X Ids
Batches == SUBSET Ids \ {{}}

\* fetchSubagents / fetchRetroSession called: one more request is outstanding
IssueFetch(s, kind, id) == [s EXCEPT !.fetches[<<kind, id>>] = @ + 1]

\* outstanding requests of loadTimelineData for id, over all its calls
TlInflight(b, id) == SumOver(b, {B \in Batches : id \in B})
Inflight(s) == SumOver(s.fetches, FetchKeys)
                 + SumOver([B \in Batches |-> s.tlBatches[B] * Cardinality(B)], Batches)

\* ------------------------------------------------------------------- render

\* renderStats asking for the retro analysis whenever no request is pending
renderStats_refetch(s) ==
  IF ~s.mounted \/ Len(s.agents) = 0 THEN s
  ELSE
    LET active == {i \in 1..Len(s.agents) : s.agents[i].status = "active"}
        pick == IF active # {} THEN CHOOSE i \in active : \A j \in active : i <= j
                ELSE 1
        sel == IF s.dagSel = None \/ s.dagSel[1] \notin RosterIds(s.agents)
               THEN Some(s.agents[pick].id) ELSE s.dagSel
        id == sel[1]
        s1 == [s EXCEPT !.dagSel = sel]
    IN IF id \notin DOMAIN s1.tlData
       THEN IF id \notin s1.statsLoading
            THEN IssueFetch([s1 EXCEPT !.statsLoading = @ \cup {id}], "stats", id)
            ELSE s1
       ELSE IF (id \notin DOMAIN s1.retroData \/ s1.retroData[id] = None)
               /\ id \notin s1.retroLoading
            THEN IssueFetch([s1 EXCEPT !.retroLoading = @ \cup {id},
                                       !.retroIssued[id] = @ + 1], "retro", id)
            ELSE s1

\* renderStats falling back to the first agent of the roster, active or not
renderStats_first(s) ==
  IF ~s.mounted \/ Len(s.agents) = 0 THEN s
  ELSE
    LET sel == IF s.dagSel = None \/ s.dagSel[1] \notin RosterIds(s.agents)
               THEN Some(s.agents[1].id) ELSE s.dagSel
        id == sel[1]
        s1 == [s EXCEPT !.dagSel = sel]
    IN IF id \notin DOMAIN s1.tlData
       THEN IF id \notin s1.statsLoading
            THEN IssueFetch([s1 EXCEPT !.statsLoading = @ \cup {id}], "stats", id)
            ELSE s1
       ELSE IF id \notin DOMAIN s1.retroData /\ id \notin s1.retroLoading
            THEN IssueFetch([s1 EXCEPT !.retroLoading = @ \cup {id},
                                       !.retroIssued[id] = @ + 1], "retro", id)
            ELSE s1

\* renderStats: its effects on the module state (selection, on-demand fetches)
renderStats(s) ==
  IF ~s.mounted \/ Len(s.agents) = 0 THEN s
  ELSE
    LET active == {i \in 1..Len(s.agents) : s.agents[i].status = "active"}
        pick == IF active # {} THEN CHOOSE i \in active : \A j \in active : i <= j
                ELSE 1
        sel == IF s.dagSel = None \/ s.dagSel[1] \notin RosterIds(s.agents)
               THEN Some(s.agents[pick].id) ELSE s.dagSel
        id == sel[1]
        s1 == [s EXCEPT !.dagSel = sel]
    IN IF id \notin DOMAIN s1.tlData
       THEN IF id \notin s1.statsLoading
            THEN IssueFetch([s1 EXCEPT !.statsLoading = @ \cup {id}], "stats", id)
            ELSE s1
       ELSE IF id \notin DOMAIN s1.retroData /\ id \notin s1.retroLoading
            THEN IssueFetch([s1 EXCEPT !.retroLoading = @ \cup {id},
                                       !.retroIssued[id] = @ + 1], "retro", id)
            ELSE s1

\* render: list and timeline bodies are pure functions of the state
render(s) ==
  IF ~s.mounted THEN s
  ELSE IF s.mode = "dag" THEN renderStats(s) ELSE s

loadTimelineData(s) ==
  IF ~s.mounted THEN s
  ELSE LET ids == RosterIds(s.agents)
           need == {id \in ids : id \notin DOMAIN s.tlData}
       IN IF need = {} THEN render([s EXCEPT !.tlLoading = FALSE])
          ELSE [s EXCEPT !.tlLoading = TRUE, !.tlBatches[need] = @ + 1]

toggleExpand(s, id) ==
  IF id \in DOMAIN s.expanded
  THEN render([s EXCEPT !.expanded = MapDel(@, id)])
  ELSE IssueFetch(render([s EXCEPT !.expanded = MapSet(@, id, None)]), "expand", id)

\* status_changed with the lazy creation of the older table view
OnStatusChanged_lazy(s, id) == syncRow(getOrCreate(s, id), id)

\* ----------------------------------------------------------- event handlers

\* the body shared by mount's roster loop and the agent_created handler
AutoExpand(s, a) ==
  IF a.status = "active"
  THEN IssueFetch([s EXCEPT !.expanded = MapSet(@, a.id, None)], "expand", a.id)
  ELSE s

RefreshTimeline(s, id) ==
  IF s.mode \in {"timeline", "dag"}
  THEN loadTimelineData([s EXCEPT !.tlData = MapDel(@, id)])
  ELSE s

\* agent_created refreshing the timeline also for an id the roster lacks
OnAgentCreated_blind(s, id) ==
  LET fa == FindAgent(s.agents, id)
  IN IF fa = None THEN RefreshTimeline(s, id)
     ELSE RefreshTimeline(
            AutoExpand([s EXCEPT !.rows = MapSet(@, id, rowFromAgent(fa[1]))], fa[1]),
            id)

OnAgentCreated(s, id) ==
  LET fa == FindAgent(s.agents, id)
  IN IF fa = None THEN s
     ELSE RefreshTimeline(
            AutoExpand([s EXCEPT !.rows = MapSet(@, id, rowFromAgent(fa[1]))], fa[1]),
            id)

OnSubagentCreated(s, id) ==
  LET fa == FindAgent(s.agents, id)
  IN IF fa = None THEN s
     ELSE [s EXCEPT !.rows = MapSet(@, id, rowFromAgent(fa[1]))]

OnAgentRemoved(s, id) ==
  [s EXCEPT !.rows = MapDel(@, id), !.expanded = MapDel(@, id),
            !.tlData = MapDel(@, id), !.statsLoading = @ \ {id},
            !.dagSel = IF @ = Some(id) THEN None ELSE @]

OnSubagentRemoved(s, id) ==
  [s EXCEPT !.rows = MapDel(@, id), !.expanded = MapDel(@, id)]

OnToolStart(s, id, ts) ==
  LET s1 == getOrCreate(s, id)
      s2 == IF id \in DOMAIN s1.rows
            THEN [s1 EXCEPT !.rows[id].toolStartedAt = Some(ts)] ELSE s1
  IN syncRow(s2, id)

OnToolDone(s, id, isError) ==
  LET s1 == getOrCreate(s, id)
      s2 == IF id \in DOMAIN s1.rows
            THEN [s1 EXCEPT !.rows[id].errorCount = IF isError THEN @ + 1 ELSE @,
                            !.rows[id].toolStartedAt = None]
            ELSE s1
      s3 == syncRow(s2, id)
      s4 == IF id \in DOMAIN s3.expanded
            THEN IssueFetch([s3 EXCEPT !.expanded[id] = None], "expand", id)
            ELSE s3
  IN RefreshTimeline(s4, id)

OnStatusChanged(s, id) == syncRow(s, id)
OnTurnComplete(s, id) == syncRow(s, id)

\* ------------------------------------------------------------ mount, unmount

RECURSIVE MountLoop(_, _)
\* for (const a of ctx.agents) { _rows.set(...); if active: expand and fetch }
MountLoop(s, i) ==
  IF i > Len(s.agents) THEN s
  ELSE LET a == s.agents[i]
       IN MountLoop(AutoExpand([s EXCEPT !.rows = MapSet(@, a.id, rowFromAgent(a))], a),
                    i + 1)

\* what mount pushes to _unsubs: the eight subscriptions and the key listener
Subscriptions ==
  {"agent_created", "subagent_created", "agent_removed", "subagent_removed",
   "tool_start", "tool_done", "status_changed", "turn_complete", "keydown"}

OnMount(s) ==
  LET s1 == MountLoop([s EXCEPT !.mounted = TRUE,
                                !.retroIssued = [id \in Ids |-> 0]], 1)
      s2 == render([s1 EXCEPT !.unsubs = @ \cup Subscriptions])
  IN [s2 EXCEPT !.tick = TRUE, !.tlTick = TRUE]

\* unmount that leaves the subscriptions in place
OnUnmount_leak(s) ==
  [s EXCEPT !.rows = EmptyMap, !.expanded = EmptyMap, !.tlData = EmptyMap,
            !.statsLoading = {}, !.retroData = EmptyMap, !.retroLoading = {},
            !.dagSel = None, !.tlLoading = FALSE, !.mode = "list",
            !.tlZoom = None,
            !.tick = FALSE, !.tlTick = FALSE,
            !.mounted = FALSE]

OnUnmount(s) ==
  [s EXCEPT !.rows = EmptyMap, !.expanded = EmptyMap, !.tlData = EmptyMap,
            !.statsLoading = {}, !.retroData = EmptyMap, !.retroLoading = {},
            !.dagSel = None, !.tlLoading = FALSE, !.mode = "list",
            !.tlZoom = None,
            !.unsubs = {}, !.tick = FALSE, !.tlTick = FALSE,
            !.mounted = FALSE]

\* ------------------------------------------------------- timers and clicks

\* the tab click handler dropping the zoom when the mode changes
OnSelectMode_unzoom(s, m) ==
  IF s.mode = m THEN s
  ELSE IF m = "timeline" THEN loadTimelineData([s EXCEPT !.mode = m, !.tlZoom = None])
  ELSE render([s EXCEPT !.mode = m, !.tlZoom = None])

\* the tab click handler wired by render
OnSelectMode(s, m) ==
  IF s.mode = m THEN s
  ELSE IF m = "timeline" THEN loadTimelineData([s EXCEPT !.mode = m])
  ELSE render([s EXCEPT !.mode = m])

\* the sidebar click handler of the stats view
OnDagSelect(s, id) ==
  IF s.dagSel = Some(id) THEN s ELSE render([s EXCEPT !.dagSel = Some(id)])

\* the _tlTick interval callback dropping every cached history
OnTlTick_all(s) ==
  IF s.mode \in {"timeline", "dag"} /\ s.mounted
  THEN loadTimelineData([s EXCEPT !.tlData = EmptyMap])
  ELSE s

\* the _tlTick interval callback
OnTlTick(s) ==
  IF s.mode \in {"timeline", "dag"} /\ s.mounted
  THEN LET act == {s.agents[i].id : i \in {j \in 1..Len(s.agents) :
                                            s.agents[j].status = "active"}}
       IN loadTimelineData([s EXCEPT !.tlData = [x \in DOMAIN @ \ act |-> @[x]]])
  ELSE s

\* ------------------------------------------------------- fetches settling

Take(s, kind, id) == [s EXCEPT !.fetches[<<kind, id>>] = @ - 1]

\* a panel fetch whose result is dropped when a newer request is outstanding
OnExpandDone_stale(s, id, data) ==
  IF s.fetches[<<"expand", id>>] > 1 THEN Take(s, "expand", id)
  ELSE render([Take(s, "expand", id) EXCEPT !.expanded = MapSet(@, id, Some(data))])

\* fetchSubagents(id).then(a => { _expanded.set(id, a); render(); }).catch(() => {})
OnExpandDone(s, id, data) ==
  render([Take(s, "expand", id) EXCEPT !.expanded = MapSet(@, id, Some(data))])
OnExpandFail(s, id) == Take(s, "expand", id)

\* renderStats: .then(set; render).catch(() => {}).finally(delete from _statsLoading)
OnStatsDone(s, id, data) ==
  LET s1 == render([Take(s, "stats", id) EXCEPT !.tlData = MapSet(@, id, data)])
  IN [s1 EXCEPT !.statsLoading = @ \ {id}]
OnStatsFail(s, id) == [Take(s, "stats", id) EXCEPT !.statsLoading = @ \ {id}]

\* renderStats: fetchRetroSession never rejects, it resolves null on any failure
OnRetroDone(s, id, payload) ==
  LET s1 == render([Take(s, "retro", id) EXCEPT !.retroData = MapSet(@, id, payload)])
  IN [s1 EXCEPT !.retroLoading = @ \ {id}]

\* what the render() inside the then-callback of the retro fetch draws in the
\* retro slot of the stats panel of id: the callback has stored the payload,
\* and the finally-callback that takes id out of _retroLoading has not run yet
OnRetroDoneDraws(s, id, payload) ==
  LET s1 == [s EXCEPT !.retroData = MapSet(@, id, payload)]
  IN IF id \in s1.retroLoading THEN "loading"
     ELSE IF id \notin DOMAIN s1.retroData \/ s1.retroData[id] = None THEN ""
     ELSE "panel"

\* one request of the loadTimelineData call with outstanding set B settles;
\* `pending` of that call is the size of B
TlTake(s, B, id) ==
  [s EXCEPT !.tlBatches =
     [X \in Batches |->
        @[X] - (IF X = B THEN 1 ELSE 0) + (IF X = B \ {id} THEN 1 ELSE 0)]]

OnTlDone(s, B, id, data) ==
  LET s1 == [TlTake(s, B, id) EXCEPT !.tlData = MapSet(@, id, data)]
      s2 == IF B = {id} THEN [s1 EXCEPT !.tlLoading = FALSE] ELSE s1
  IN render(s2)

OnTlFail(s, B, id) ==
  LET s1 == TlTake(s, B, id)
  IN IF B = {id} THEN render([s1 EXCEPT !.tlLoading = FALSE]) ELSE s1

\* ------------------------------------------------------------------ actions

\* the model's bounds on what a handler may leave
Bounded(s) ==
  /\ Inflight(s) <= MaxInflight
  /\ \A id \in DOMAIN s.rows : s.rows[id].errorCount <= MaxErr

\* the view moves to state s
Commit(s) ==
  /\ Bounded(s)
  /\ mounted' = s.mounted
  /\ tick' = s.tick
  /\ tlTick' = s.tlTick
  /\ unsubs' = s.unsubs
  /\ rows' = s.rows
  /\ expanded' = s.expanded
  /\ tlData' = s.tlData
  /\ tlLoading' = s.tlLoading
  /\ tlZoom' = s.tlZoom
  /\ drag' = s.drag
  /\ statsLoading' = s.statsLoading
  /\ retroData' = s.retroData
  /\ retroLoading' = s.retroLoading
  /\ dagSel' = s.dagSel
  /\ mode' = s.mode
  /\ fetches' = s.fetches
  /\ tlBatches' = s.tlBatches
  /\ retroIssued' = s.retroIssued
  /\ UNCHANGED <<agents, now, out>>

viewVars == <<mounted, tick, tlTick, unsubs, rows, expanded, tlData, tlLoading,
              tlZoom, drag, statsLoading, retroData,
              retroLoading, dagSel, mode, fetches, tlBatches, retroIssued>>

\* the host changes its roster; the view is not told
HostAdd(a) ==
  /\ a.id \notin RosterIds(agents)
  /\ agents' = Append(agents, a)
  /\ UNCHANGED <<viewVars, now, out>>

HostRemove(id) ==
  /\ id \in RosterIds(agents)
  /\ agents' = SelectSeq(agents, LAMBDA a : a.id # id)
  /\ UNCHANGED <<viewVars, now, out>>

HostSet(a) ==
  /\ \E i \in 1..Len(agents) :
       /\ agents[i].id = a.id
       /\ agents[i] # a
       /\ agents' = [agents EXCEPT ![i] = a]
  /\ UNCHANGED <<viewVars, now, out>>

\* time passes without any task of the view running
Advance ==
  /\ now < MaxSteps * StepMs
  /\ now' = now + StepMs
  /\ UNCHANGED <<viewVars, agents, last, out>>

Mount == ~mounted /\ Commit(OnMount(St))
Unmount == mounted /\ Commit(OnUnmount(St))

AgentCreated(id) == "agent_created" \in unsubs /\ Commit(OnAgentCreated(St, id))
SubagentCreated(id) == "subagent_created" \in unsubs /\ Commit(OnSubagentCreated(St, id))
AgentRemoved(id) == "agent_removed" \in unsubs /\ Commit(OnAgentRemoved(St, id))
SubagentRemoved(id) == "subagent_removed" \in unsubs /\ Commit(OnSubagentRemoved(St, id))
ToolStart(id, ts) == "tool_start" \in unsubs /\ Commit(OnToolStart(St, id, ts))
ToolDone(id, isError) == "tool_done" \in unsubs /\ Commit(OnToolDone(St, id, isError))
StatusChanged(id) == "status_changed" \in unsubs /\ Commit(OnStatusChanged(St, id))
TurnComplete(id) == "turn_complete" \in unsubs /\ Commit(OnTurnComplete(St, id))

\* the _tick interval callback
Tick == tick /\ Commit(render(St))
TlTick == tlTick /\ Commit(OnTlTick(St))

SelectMode(m) == mounted /\ Commit(OnSelectMode(St, m))
DagSelect(id) ==
  /\ mounted /\ mode = "dag" /\ id \in RosterIds(agents)
  /\ Commit(OnDagSelect(St, id))
\* a click on a list row, or Enter on the focused row
ToggleExpand(id) ==
  /\ mounted /\ mode = "list" /\ id \in RosterIds(agents)
  /\ Commit(toggleExpand(St, id))

ExpandDone(id, data) ==
  fetches[<<"expand", id>>] > 0 /\ Commit(OnExpandDone(St, id, data))
ExpandFail(id) ==
  fetches[<<"expand", id>>] > 0 /\ Commit(OnExpandFail(St, id))
StatsDone(id, data) ==
  fetches[<<"stats", id>>] > 0 /\ Commit(OnStatsDone(St, id, data))
StatsFail(id) ==
  fetches[<<"stats", id>>] > 0 /\ Commit(OnStatsFail(St, id))
RetroDone(id, payload) ==
  fetches[<<"retro", id>>] > 0 /\ Commit(OnRetroDone(St, id, payload))
TlDone(B, id, data) ==
  tlBatches[B] > 0 /\ id \in B /\ Commit(OnTlDone(St, B, id, data))
TlFail(B, id) ==
  tlBatches[B] > 0 /\ id \in B /\ Commit(OnTlFail(St, B, id))

\* ------------------------------------------------------------ event history

EventTypes ==
  {"agent_created", "subagent_created", "agent_removed", "subagent_removed",
   "tool_start", "tool_done", "status_changed", "turn_complete"}

NoEvent ==
  [ev |-> "none", id |-> "", ts |-> 0, err |-> FALSE, afterRemoved |-> FALSE]

\* an event as `last` records it; afterRemoved says that the step before
\* delivered agent_removed for the same id
Event(ev, id, ts, err) ==
  [ev |-> ev, id |-> id, ts |-> ts, err |-> err,
   afterRemoved |-> last.id = id /\ last.ev = "agent_removed"]

\* the step A, recorded as the delivery of event e
Logged(A, e) == A /\ last' = e
\* the step A, which is no delivery of an event, or is not recorded
Quiet(A) == A /\ last' = NoEvent
\* the step A, which is no delivery of an event; the last delivery stays on record
Keeps(A) == A /\ last' = last

\* ------------------------------------------------------------- what is drawn

\* renderRow: the running time of the row's tool at the instant of the render
elapsedMs(row) ==
  IF Truthy(row.toolStartedAt) THEN now - row.toolStartedAt[1] ELSE 0

isStuck(row) == row.toolStartedAt # None /\ elapsedMs(row) >= STUCK_MS

\* durClass with strict comparisons
durClass_strict(ms) ==
  IF ms > STUCK_MS THEN "c-stuck" ELSE IF ms > LONG_MS THEN "c-long" ELSE "c-ok"

durClass(ms) ==
  IF ms >= STUCK_MS THEN "c-stuck" ELSE IF ms >= LONG_MS THEN "c-long" ELSE "c-ok"

\* the class of the row's bar and duration
rowClass(row) ==
  IF Truthy(row.toolStartedAt) THEN durClass(elapsedMs(row)) ELSE "c-ok"

\* barPct filling the bar over LONG_MS
barPct_long(ms) ==
  [num |-> IF 100 * ms >= 100 * LONG_MS THEN 100 * LONG_MS ELSE 100 * ms,
   den |-> LONG_MS]

\* min(100, ms / STUCK_MS * 100) as the exact fraction num / den of a percent
barPct(ms) ==
  [num |-> IF 100 * ms >= 100 * STUCK_MS THEN 100 * STUCK_MS ELSE 100 * ms,
   den |-> STUCK_MS]

\* the width printed for the bar: barPct(ms).toFixed(0)
barWidth(ms) == (2 * barPct(ms).num + barPct(ms).den) \div (2 * barPct(ms).den)

\* the rows the header counts as stuck
stuckRows ==
  {id \in DOMAIN rows :
     rows[id].toolStartedAt # None /\ now - rows[id].toolStartedAt[1] >= STUCK_MS}

stuckN == Cardinality(stuckRows)

\* buildFlat: the row drawn for the roster agent a
drawnRow(a) == IF a.id \in DOMAIN rows THEN rows[a.id] ELSE rowFromAgent(a)

\* renderRow: the sub-agent panel is drawn under the row of a
isExpanded(a) ==
  \/ drawnRow(a).agent.status = "active"
  \/ isStuck(drawnRow(a))
  \/ a.id \in DOMAIN expanded

\* renderSubagentPanel: what the panel of id shows
renderSubagentPanel(id) ==
  IF id \notin DOMAIN expanded \/ expanded[id] = None THEN "loading" ELSE "data"

\* what renderStats hands to renderRetroPanel for id, and what that draws:
\* the loading line, nothing, or the panel
renderRetroPanel(id) ==
  IF id \in retroLoading THEN "loading"
  ELSE IF id \notin DOMAIN retroData \/ retroData[id] = None THEN ""
  ELSE "panel"

\* ------------------------------------------------------------- tree builder

\* the segments a prefix is made of, SegChars characters each: the branch
\* glyphs of a last child and of another child, and the continuations under a
\* last child and under another child
BranchLast == "+- "
BranchMid == "|- "
ContLast == "   "
ContMid == "|  "
SegChars == 3

\* buildFlat taking only the agents without a parent id as roots
roots_strict(ags) ==
  SelectSeq(ags, LAMBDA a : a.parentId = None \/ a.parentId[1] = "")

\* buildFlat starting a tree at every agent
roots_every(ags) == ags

\* buildFlat: the agents that start a tree
roots(ags) ==
  SelectSeq(ags, LAMBDA a :
    a.parentId = None \/ a.parentId[1] = "" \/ a.parentId[1] \notin RosterIds(ags))

RECURSIVE visit(_, _, _, _, _)
RECURSIVE visitAll(_, _, _, _, _)

\* visit drawing the vertical bar under every ancestor
visit_bars(s, agent, inherited, isLast, depth) ==
  LET connector == IF depth = 0 THEN <<>>
                   ELSE IF isLast THEN <<BranchLast>> ELSE <<BranchMid>>
      node == [id |-> agent.id,
               row |-> IF agent.id \in DOMAIN s.rows THEN s.rows[agent.id]
                       ELSE rowFromAgent(agent),
               prefix |-> inherited \o connector,
               depth |-> depth]
      children == SelectSeq(s.agents, LAMBDA a : a.parentId = Some(agent.id))
      next == IF depth = 0 THEN <<>> ELSE inherited \o <<ContMid>>
  IN <<node>> \o visitAll(s, children, 1, next, depth + 1)

\* buildFlat.visit: the entries pushed for agent and its descendants; a prefix
\* is the sequence of its segments, and depth is kept with the entry
visit(s, agent, inherited, isLast, depth) ==
  LET connector == IF depth = 0 THEN <<>>
                   ELSE IF isLast THEN <<BranchLast>> ELSE <<BranchMid>>
      node == [id |-> agent.id,
               row |-> IF agent.id \in DOMAIN s.rows THEN s.rows[agent.id]
                       ELSE rowFromAgent(agent),
               prefix |-> inherited \o connector,
               depth |-> depth]
      children == SelectSeq(s.agents, LAMBDA a : a.parentId = Some(agent.id))
      next == IF depth = 0 THEN <<>>
              ELSE inherited \o (IF isLast THEN <<ContLast>> ELSE <<ContMid>>)
  IN <<node>> \o visitAll(s, children, 1, next, depth + 1)

\* list.forEach((c, i) => visit(c, inherited, i === list.length - 1, depth))
visitAll(s, list, i, inherited, depth) ==
  IF i > Len(list) THEN <<>>
  ELSE visit(s, list[i], inherited, i = Len(list), depth)
         \o visitAll(s, list, i + 1, inherited, depth)

buildFlat(s) ==
  IF ~s.mounted THEN <<>>
  ELSE visitAll(s, roots(s.agents), 1, <<>>, 0)

\* the render of the list body, with the tree it was built from and the
\* entries buildFlat returned kept in out
RenderList ==
  /\ mounted /\ mode = "list"
  /\ out' = [fn |-> "buildFlat", arg |-> agents, val |-> buildFlat(St)]
  /\ UNCHANGED <<viewVars, agents, now>>

\* ------------------------------------------------------------ timeline axis

\* tlTicks: the candidate intervals, in ms
INTERVALS ==
  <<1000, 5000, 10000, 30000, 60000, 5 * 60000, 10 * 60000, 15 * 60000,
    30 * 60000, 3600000, 2 * 3600000, 4 * 3600000>>

\* tickInterval looking for a candidate of at least a quarter of the window
tickInterval_coarse(dur) ==
  LET fits == {i \in 1..Len(INTERVALS) : 4 * INTERVALS[i] >= dur}
  IN IF fits = {} THEN INTERVALS[Len(INTERVALS)]
     ELSE INTERVALS[CHOOSE i \in fits : \A j \in fits : i <= j]

\* INTERVALS.find(i => i >= dur / 8) ?? the last candidate
tickInterval(dur) ==
  LET fits == {i \in 1..Len(INTERVALS) : 8 * INTERVALS[i] >= dur}
  IN IF fits = {} THEN INTERVALS[Len(INTERVALS)]
     ELSE INTERVALS[CHOOSE i \in fits : \A j \in fits : i <= j]

\* Math.ceil(a / b) * b for b > 0
CeilTo(a, b) == IF a % b = 0 THEN a ELSE (a - (a % b)) + b

\* firstTick rounding the window start down
firstTick_floor(start, interval) == start - (start % interval)

\* the first tick: Math.ceil(start / interval) * interval
firstTick(start, interval) == CeilTo(start, interval)

RECURSIVE tickLoop(_, _, _, _)
\* for (t = first; t <= end; t += interval) ticks.push(...); a tick keeps its
\* instant t, and its pct is pctNum / pctDen * 100
tickLoop(t, start, end, interval) ==
  IF t > end THEN <<>>
  ELSE <<[t |-> t, pctNum |-> t - start, pctDen |-> end - start,
          seconds |-> interval < 60000]>>
         \o tickLoop(t + interval, start, end, interval)

\* tlTicks, with the interval it chose kept next to the ticks
tlTicks(start, end) ==
  LET interval == tickInterval(end - start)
  IN [interval |-> interval,
      ticks |-> tickLoop(firstTick(start, interval), start, end, interval)]

\* renderTimeline draws the axis of the window [start, end]
DrawAxis(start, end) ==
  /\ out' = [fn |-> "tlTicks", arg |-> <<start, end>>, val |-> tlTicks(start, end)]
  /\ UNCHANGED <<viewVars, agents, now>>

\* ------------------------------------------------------------ timeline body

Max(a, b) == IF a >= b THEN a ELSE b
Min(a, b) == IF a <= b THEN a ELSE b

\* JavaScript truthiness of a number read from a data attribute
TruthyNum(n) == n # 0

getTimeWindow(s) ==
  IF s.tlZoom # None THEN s.tlZoom[1]
  ELSE [start |-> now - TL_WINDOW, end |-> now]

\* new Date(startedAt || lastActivityAt).getTime(), instants in ms
sessionStart(a) == IF a.startedAt # None THEN a.startedAt[1] ELSE a.lastActivityAt
sessionEnd(a) == a.lastActivityAt

\* a tool call of a fetched history
Span(ts, fin) == [startedAt |-> ts, finishedAt |-> fin]
spanStart(sa) == sa.startedAt
spanEnd(sa) == IF sa.finishedAt # None THEN sa.finishedAt[1] ELSE sa.startedAt + 2000

\* the range a click on a session label asks for; sessDur * 0.1 is exact for
\* the durations drawn here, which are multiples of 10 ms
sessionZoom(a) ==
  LET sessDur == Max(sessionEnd(a) - sessionStart(a), 30000)
      pad == Max(sessDur \div 10, 15000)
  IN [start |-> sessionStart(a) - pad,
      end |-> IF a.status = "active" THEN now + 2000 ELSE sessionEnd(a) + pad]

\* the range a click on a tool block asks for; blockDur * 0.5 is exact for the
\* durations drawn here, which are even
blockZoom(sa) ==
  LET blockDur == spanEnd(sa) - spanStart(sa)
      blockPad == Max(blockDur \div 2, 10000)
  IN [start |-> spanStart(sa) - blockPad, end |-> spanEnd(sa) + blockPad]

\* the session bar: left and right are offsets from the window start in ms
\* (percent = offset / winDur * 100); thin says that the width is the 0.3 %
\* minimum
sessionBar(a, win) ==
  LET winDur == win.end - win.start
      sLeft == Max(0, sessionStart(a) - win.start)
      sRight == Min(winDur, sessionEnd(a) - win.start)
  IN [left |-> sLeft, right |-> sRight,
      thin |-> sRight - sLeft < (3 * winDur + 999) \div 1000]

RECURSIVE blockLoop_touching(_, _, _, _)
\* the block loop sending a span that starts at the end of lane 1 to lane 2
blockLoop_touching(subs, k, laneEnd, win) ==
  IF k > Len(subs) THEN <<>>
  ELSE LET sa == subs[k]
           ts == spanStart(sa)
           te == spanEnd(sa)
           winDur == win.end - win.start
       IN IF te < win.start \/ ts > win.end
          THEN blockLoop_touching(subs, k + 1, laneEnd, win)
          ELSE LET left == Max(0, ts - win.start)
                   right == Min(winDur, te - win.start)
                   lane == IF laneEnd[1] # None /\ ts <= laneEnd[1][1] THEN 2 ELSE 1
                   ends == [laneEnd EXCEPT ![lane] = Some(te)]
               IN <<[span |-> k, left |-> left, right |-> right,
                     thin |-> right - left < (2 * winDur + 999) \div 1000,
                     lane |-> lane, ends |-> ends, zoom |-> blockZoom(sa)]>>
                    \o blockLoop_touching(subs, k + 1, ends, win)

RECURSIVE blockLoop(_, _, _, _)
\* for (const sa of subs): the blocks drawn, with their lanes and with laneEnd
\* as the iteration leaves it; laneEnd is None for -Infinity
blockLoop(subs, k, laneEnd, win) ==
  IF k > Len(subs) THEN <<>>
  ELSE LET sa == subs[k]
           ts == spanStart(sa)
           te == spanEnd(sa)
           winDur == win.end - win.start
       IN IF te < win.start \/ ts > win.end
          THEN blockLoop(subs, k + 1, laneEnd, win)
          ELSE LET left == Max(0, ts - win.start)
                   right == Min(winDur, te - win.start)
                   lane == IF laneEnd[1] # None /\ ts < laneEnd[1][1] THEN 2 ELSE 1
                   ends == [laneEnd EXCEPT ![lane] = Some(te)]
               IN <<[span |-> k, left |-> left, right |-> right,
                     thin |-> right - left < (2 * winDur + 999) \div 1000,
                     lane |-> lane, ends |-> ends, zoom |-> blockZoom(sa)]>>
                    \o blockLoop(subs, k + 1, ends, win)

\* renderTimeline draws the tool calls subs of one session in the window win
DrawLanes(subs, win) ==
  /\ out' = [fn |-> "lanes", arg |-> subs,
             val |-> blockLoop(subs, 1, <<None, None>>, win)]
  /\ UNCHANGED <<viewVars, agents, now>>

RECURSIVE insertLane(_, _)
\* a into the ascending list, after the agents that start no later
insertLane(sorted, a) ==
  IF sorted = <<>> THEN <<a>>
  ELSE IF sessionStart(sorted[Len(sorted)]) <= sessionStart(a)
       THEN Append(sorted, a)
       ELSE Append(insertLane(SubSeq(sorted, 1, Len(sorted) - 1), a),
                   sorted[Len(sorted)])

RECURSIVE sortLanes(_, _)
\* [...agents].sort by session start, a stable sort
sortLanes(ags, n) ==
  IF n = 0 THEN <<>> ELSE insertLane(sortLanes(ags, n - 1), ags[n])

\* renderTimeline: one lane per agent with its bars, its blocks and the range
\* its label asks for
renderTimeline(s) ==
  IF ~s.mounted \/ Len(s.agents) = 0 THEN <<>>
  ELSE LET win == getTimeWindow(s)
           sorted == sortLanes(s.agents, Len(s.agents))
       IN [i \in 1..Len(sorted) |->
             [id |-> sorted[i].id,
              bars |-> <<sessionBar(sorted[i], win)>>,
              blocks |-> IF sorted[i].id \in DOMAIN s.tlData
                         THEN blockLoop(s.tlData[sorted[i].id], 1, <<None, None>>, win)
                         ELSE <<>>,
              zoom |-> sessionZoom(sorted[i])]]

\* the label and block click handlers: if (s && e && e > s) zoom and render
zoomTo(s, r) ==
  IF TruthyNum(r.start) /\ TruthyNum(r.end) /\ r.end > r.start
  THEN render([s EXCEPT !.tlZoom = Some(r)])
  ELSE s

\* x / w * d for 0 <= x <= w and d > 0, computed without a large product
MulDiv(x, d, w) == x * (d \div w) + (x * (d % w)) \div w

\* mouseup of a drag over the pixels x1..x2 of a track width pixels wide; the
\* ends fall on whole ms for the drags drawn here
dragZoom(s, x1, x2, width) ==
  IF x2 - x1 < 5 THEN s
  ELSE LET win == getTimeWindow(s)
           winDur == win.end - win.start
           tStart == win.start + MulDiv(x1, winDur, width)
           tEnd == win.start + MulDiv(x2, winDur, width)
       IN IF tEnd > tStart + 500
          THEN render([s EXCEPT !.tlZoom = Some([start |-> tStart, end |-> tEnd])])
          ELSE s

\* the reset button
zoomReset(s) == render([s EXCEPT !.tlZoom = None])

\* a click on the label of the lane of id
ZoomLabel(id) ==
  /\ mounted /\ mode = "timeline" /\ id \in RosterIds(agents)
  /\ Commit(zoomTo(St, sessionZoom(FindAgent(agents, id)[1])))

\* a click on the block drawn for tool call k of the lane of id
ZoomBlock(id, k) ==
  /\ mounted /\ mode = "timeline"
  /\ \E i \in 1..Len(renderTimeline(St)) :
       /\ renderTimeline(St)[i].id = id
       /\ \E b \in 1..Len(renderTimeline(St)[i].blocks) :
            renderTimeline(St)[i].blocks[b].span = k
  /\ Commit(zoomTo(St, blockZoom(tlData[id][k])))

\* a drag over the pixels x1..x2 of a track width pixels wide
ZoomDrag(x1, x2, width) ==
  /\ mounted /\ mode = "timeline" /\ Len(agents) > 0
  /\ 0 <= x1 /\ x1 <= x2 /\ x2 <= width
  /\ LET winDur == getTimeWindow(St).end - getTimeWindow(St).start
     IN (x1 * (winDur % width)) % width = 0 /\ (x2 * (winDur % width)) % width = 0
  /\ Commit(dragZoom(St, x1, x2, width))

\* a click on the reset button of the zoom bar
ZoomReset ==
  /\ mounted /\ mode = "timeline" /\ tlZoom # None
  /\ Commit(zoomReset(St))

\* mousedown on the timeline at relX = clientX - trackRect.left of a track
\* width pixels wide: a press outside the track is ignored, a press inside
\* starts a drag and leaves its listeners on the document
onDown(s, relX, width) ==
  IF relX < 0 \/ relX > width THEN s
  ELSE [s EXCEPT !.drag = Some([startX |-> relX, width |-> width])]

\* mouseup ending the drag with the pointer at upX = clientX - trackRect.left:
\* the state it leaves, the clamped extent x1..x2, and whether it redrew
onUp_unclamped(s, upX) ==
  LET d == s.drag[1]
      curX == upX
      x1 == Min(d.startX, curX)
      x2 == Max(d.startX, curX)
      s1 == [s EXCEPT !.drag = None]
  IN IF x2 - x1 < 5 THEN [st |-> s1, x1 |-> x1, x2 |-> x2, drawn |-> FALSE]
     ELSE LET win == getTimeWindow(s1)
              winDur == win.end - win.start
              tStart == win.start + MulDiv(x1, winDur, d.width)
              tEnd == win.start + MulDiv(x2, winDur, d.width)
          IN IF tEnd > tStart + 500
             THEN [st |-> render([s1 EXCEPT !.tlZoom = Some([start |-> tStart, end |-> tEnd])]),
                   x1 |-> x1, x2 |-> x2, drawn |-> TRUE]
             ELSE [st |-> s1, x1 |-> x1, x2 |-> x2, drawn |-> FALSE]

\* mouseup without the 5 pixel threshold
onUp_eager(s, upX) ==
  LET d == s.drag[1]
      curX == Max(0, Min(upX, d.width))
      x1 == Min(d.startX, curX)
      x2 == Max(d.startX, curX)
      s1 == [s EXCEPT !.drag = None]
      win == getTimeWindow(s1)
      winDur == win.end - win.start
      tStart == win.start + MulDiv(x1, winDur, d.width)
      tEnd == win.start + MulDiv(x2, winDur, d.width)
  IN IF tEnd > tStart + 500
     THEN [st |-> render([s1 EXCEPT !.tlZoom = Some([start |-> tStart, end |-> tEnd])]),
           x1 |-> x1, x2 |-> x2, drawn |-> TRUE]
     ELSE [st |-> s1, x1 |-> x1, x2 |-> x2, drawn |-> FALSE]

onUp(s, upX) ==
  LET d == s.drag[1]
      curX == Max(0, Min(upX, d.width))
      x1 == Min(d.startX, curX)
      x2 == Max(d.startX, curX)
      s1 == [s EXCEPT !.drag = None]
  IN IF x2 - x1 < 5 THEN [st |-> s1, x1 |-> x1, x2 |-> x2, drawn |-> FALSE]
     ELSE LET win == getTimeWindow(s1)
              winDur == win.end - win.start
              tStart == win.start + MulDiv(x1, winDur, d.width)
              tEnd == win.start + MulDiv(x2, winDur, d.width)
          IN IF tEnd > tStart + 500
             THEN [st |-> render([s1 EXCEPT !.tlZoom = Some([start |-> tStart, end |-> tEnd])]),
                   x1 |-> x1, x2 |-> x2, drawn |-> TRUE]
             ELSE [st |-> s1, x1 |-> x1, x2 |-> x2, drawn |-> FALSE]

\* a gesture as `last` records it: its kind, its extent in pixels after
\* clamping to the track, and whether the handler redrew
Gesture(kind, extent, drawn) ==
  [ev |-> kind, id |-> "", ts |-> 0, err |-> FALSE, afterRemoved |-> FALSE,
   extent |-> extent, drawn |-> drawn]

\* the pointer goes down on a track drawn by the last render
DragDown(relX, width) ==
  /\ mounted /\ mode = "timeline" /\ Len(agents) > 0
  /\ drag = None
  /\ Commit(onDown(St, relX, width))

\* the pointer comes up, wherever the view is by then; the ends of the range
\* fall on whole ms for the gestures drawn here
DragUp(upX) ==
  /\ drag # None
  /\ LET r == onUp(St, upX)
         winDur == getTimeWindow(St).end - getTimeWindow(St).start
         w == drag[1].width
     IN /\ (r.x1 * (winDur % w)) % w = 0 /\ (r.x2 * (winDur % w)) % w = 0
        /\ Commit(r.st)
        /\ last' = Gesture("drag_up", r.x2 - r.x1, r.drawn)

\* nothing computed yet
NoOut == [fn |-> "none", arg |-> <<>>, val |-> <<>>]

\* ------------------------------------------------------------ specifications

Init ==
  /\ mounted = FALSE
  /\ tick = FALSE
  /\ tlTick = FALSE
  /\ unsubs = {}
  /\ agents = <<>>
  /\ rows = EmptyMap
  /\ expanded = EmptyMap
  /\ tlData = EmptyMap
  /\ tlLoading = FALSE
  /\ tlZoom = None
  /\ drag = None
  /\ statsLoading = {}
  /\ retroData = EmptyMap
  /\ retroLoading = {}
  /\ dagSel = None
  /\ mode = "list"
  /\ fetches = [k \in FetchKeys |-> 0]
  /\ tlBatches = [B \in Batches |-> 0]
  /\ now = StepMs
  /\ last = NoEvent
  /\ retroIssued = [id \in Ids |-> 0]
  /\ out = NoOut

\* roster entries without extension fields, none of them running a tool
IdleAgents == {Agent(id, "idle", None, None) : id \in Ids}

\* roster entries without extension fields
PlainAgents == {Agent(id, st, None, None) : id \in Ids, st \in Statuses}

\* roster entries with the extension fields the row store reads
ExtAgents ==
  {Agent(id, "idle", tsa, ec) :
     id \in Ids,
     tsa \in {None} \cup {Some(t) : t \in {u \in Times : u <= now}},
     ec \in {None} \cup {Some(n) : n \in 1..MaxHostErr}}

RetroPayloads == {None} \cup {Some(r) : r \in Retros}

\* The timeline cache, the stats view with its retro cache, the mode machine
\* and the lifecycle, over a roster that grows.
Next ==
  \/ \E a \in IdleAgents : Quiet(HostAdd(a))
  \/ Quiet(Mount)
  \/ Quiet(Unmount)
  \/ \E id \in Ids : Quiet(AgentCreated(id))
  \/ \E id \in Ids : Quiet(AgentRemoved(id))
  \/ \E id \in Ids : Quiet(SubagentRemoved(id))
  \/ \E id \in Ids : Quiet(ToolDone(id, FALSE))
  \/ Quiet(Tick)
  \/ Quiet(TlTick)
  \/ \E m \in Modes : Quiet(SelectMode(m))
  \/ \E id \in Ids : Quiet(DagSelect(id))
  \/ \E id \in Ids, d \in Data : Quiet(StatsDone(id, d))
  \/ \E id \in Ids : Quiet(StatsFail(id))
  \/ \E id \in Ids, p \in RetroPayloads : Quiet(RetroDone(id, p))
  \/ \E B \in Batches, id \in Ids, d \in Data : Quiet(TlDone(B, id, d))
  \/ \E B \in Batches, id \in Ids : Quiet(TlFail(B, id))

Spec == Init /\ [][Next]_vars

\* The row store under the eight events, over rosters that carry the extension
\* fields and change at any time.
NextStore ==
  \/ \E a \in ExtAgents : Quiet(HostAdd(a))
  \/ \E id \in Ids : Quiet(HostRemove(id))
  \/ \E a \in ExtAgents : Quiet(HostSet(a))
  \/ Advance
  \/ Quiet(Mount)
  \/ Quiet(Unmount)
  \/ \E id \in Ids :
       Logged(AgentCreated(id), Event("agent_created", id, 0, FALSE))
  \/ \E id \in Ids :
       Logged(SubagentCreated(id), Event("subagent_created", id, 0, FALSE))
  \/ \E id \in Ids :
       Logged(AgentRemoved(id), Event("agent_removed", id, 0, FALSE))
  \/ \E id \in Ids :
       Logged(SubagentRemoved(id), Event("subagent_removed", id, 0, FALSE))
  \/ \E id \in Ids, ts \in {u \in Times : u <= now} :
       Logged(ToolStart(id, ts), Event("tool_start", id, ts, FALSE))
  \/ \E id \in Ids, e \in BOOLEAN :
       Logged(ToolDone(id, e), Event("tool_done", id, 0, e))
  \/ \E id \in Ids :
       Logged(StatusChanged(id), Event("status_changed", id, 0, FALSE))
  \/ \E id \in Ids :
       Logged(TurnComplete(id), Event("turn_complete", id, 0, FALSE))
  \/ Quiet(Tick)

SpecStore == Init /\ [][NextStore]_vars

\* The sub-agent panels of the list view, over rosters whose agents start and
\* stop at any time.
NextPanel ==
  \/ \E a \in PlainAgents : Quiet(HostAdd(a))
  \/ \E id \in Ids : Quiet(HostRemove(id))
  \/ \E a \in PlainAgents : Quiet(HostSet(a))
  \/ Quiet(Mount)
  \/ Quiet(Unmount)
  \/ \E id \in Ids :
       Logged(AgentCreated(id), Event("agent_created", id, 0, FALSE))
  \/ \E id \in Ids :
       Logged(AgentRemoved(id), Event("agent_removed", id, 0, FALSE))
  \/ \E id \in Ids :
       Logged(SubagentRemoved(id), Event("subagent_removed", id, 0, FALSE))
  \/ \E id \in Ids :
       Logged(ToolDone(id, FALSE), Event("tool_done", id, 0, FALSE))
  \/ Quiet(Tick)
  \/ \E id \in Ids : Quiet(ToggleExpand(id))
  \/ \E id \in Ids, d \in Data : Quiet(ExpandDone(id, d))
  \/ \E id \in Ids : Quiet(ExpandFail(id))

SpecPanel == Init /\ [][NextPanel]_vars

\* The creation events over rosters that grow and shrink, with panels open
\* and the timeline cache filled.
NextCreated ==
  \/ \E a \in IdleAgents : Quiet(HostAdd(a))
  \/ \E id \in Ids : Quiet(HostRemove(id))
  \/ Quiet(Mount)
  \/ \E id \in Ids :
       Logged(AgentCreated(id), Event("agent_created", id, 0, FALSE))
  \/ \E id \in Ids :
       Logged(SubagentCreated(id), Event("subagent_created", id, 0, FALSE))
  \/ \E m \in {"list", "timeline"} : Quiet(SelectMode(m))
  \/ \E id \in Ids : Quiet(ToggleExpand(id))
  \/ \E id \in Ids, d \in Data : Quiet(ExpandDone(id, d))
  \/ \E B \in Batches, id \in Ids, d \in Data : Quiet(TlDone(B, id, d))

SpecCreated == Init /\ [][NextCreated]_vars

\* roster entries whose status and error count the host changes in silence
SyncAgents ==
  {Agent(id, st, None, ec) :
     id \in Ids, st \in Statuses, ec \in {None} \cup {Some(n) : n \in 1..MaxHostErr}}

\* The two interval timers of mount over a roster the host changes without
\* sending events; both timers keep firing while the view is mounted.
NextSync ==
  \/ \E a \in SyncAgents : Quiet(HostAdd(a))
  \/ \E a \in SyncAgents : Quiet(HostSet(a))
  \/ Quiet(Mount)
  \/ Quiet(Unmount)
  \/ Quiet(Tick)
  \/ Quiet(TlTick)
  \/ \E m \in {"list", "timeline"} : Quiet(SelectMode(m))
  \/ \E id \in Ids, d \in Data : Quiet(ExpandDone(id, d))
  \/ \E B \in Batches, id \in Ids, d \in Data : Quiet(TlDone(B, id, d))

SpecSync ==
  Init /\ [][NextSync]_vars /\ WF_vars(Quiet(Tick)) /\ WF_vars(Quiet(TlTick))

\* trees of at most MaxTree agents
MaxTree == 4
TreeNames == <<"a1", "a2", "a3", "a4", "a5", "a6">>
TreeIds == {TreeNames[i] : i \in 1..MaxTree}
\* a parent id that no agent has
Orphaned == "zz"

\* roster entries with every parent pointer: none, any agent (the entry
\* itself and its descendants too), and an id outside the roster
TreeAgents ==
  {[Agent(id, "idle", None, None) EXCEPT !.parentId = p] :
     id \in TreeIds, p \in {None} \cup {Some(q) : q \in TreeIds \cup {Orphaned}}}

\* The list body over every tree shape; the agents are named in roster order.
NextFlat ==
  \/ \E a \in TreeAgents :
       /\ Len(agents) < MaxTree
       /\ a.id = TreeNames[Len(agents) + 1]
       /\ Quiet(HostAdd(a))
  \/ Quiet(Mount)
  \/ Quiet(RenderList)

SpecFlat == Init /\ [][NextFlat]_vars

\* elapsed times around every multiple of DurStep up to MaxDurSteps of them,
\* the instant before the tool started included
MaxDurSteps == 40
DurStep == 10 * TICK_MS
DurSamples == {k * DurStep + d : k \in 0..MaxDurSteps, d \in {-1, 0, 1}}

\* renderRow classifies an elapsed time
ClassifyDur(ms) ==
  /\ out' = [fn |-> "durClass", arg |-> ms, val |-> durClass(ms)]
  /\ UNCHANGED <<viewVars, agents, now>>

\* renderRow fills the bar for an elapsed time
FillBar(ms) ==
  /\ out' = [fn |-> "barPct", arg |-> ms, val |-> barPct(ms)]
  /\ UNCHANGED <<viewVars, agents, now>>

\* durClass and barPct over the sampled elapsed times.
NextDur ==
  \/ \E ms \in DurSamples : Quiet(ClassifyDur(ms))
  \/ \E ms \in DurSamples : Quiet(FillBar(ms))

SpecDur == Init /\ [][NextDur]_vars

\* window starts: within MaxOff ms of an instant aligned to no candidate, to
\* 10 minutes, to the hour and to 4 hours; instants count from a multiple of 4 h
MaxOff == 1
AxisStarts ==
  {a + d : a \in {4 * 3600000 + 7 * 60000 + 13000, 5 * 3600000 + 10 * 60000,
                  7 * 3600000, 8 * 3600000},
           d \in (0 - MaxOff)..MaxOff}
\* window lengths: one hour, half a second, and within MaxOff ms of eight times
\* each candidate
AxisDurs ==
  {3600000, 500}
    \cup {8 * INTERVALS[i] + d : i \in 1..Len(INTERVALS), d \in (0 - MaxOff)..MaxOff}

\* tlTicks over the sampled windows.
NextAxis ==
  \E start \in AxisStarts, dur \in AxisDurs : Quiet(DrawAxis(start, start + dur))

SpecAxis == Init /\ [][NextAxis]_vars

\* sessions as the roster reports them: an idle one that began 100 s ago and
\* was last active 10 s ago, the same without startedAt, an idle one that ended
\* a minute before the 8 h window, and an active one stamped by a clock that
\* runs 16.8 s ahead of ours
Sessions ==
  {<<"idle", Some(now - 100000), now - 10000>>,
   <<"idle", None, now - 10000>>,
   <<"idle", Some(now - TL_WINDOW - 120000), now - TL_WINDOW - 60000>>,
   <<"active", Some(now + 16800), now + 16800>>}

TimelineAgents ==
  {[Agent(id, p[1], None, None) EXCEPT !.startedAt = p[2], !.lastActivityAt = p[3]] :
     id \in Ids, p \in Sessions}

\* tool histories: one finished call inside the window; a call that ended
\* before the window, then two calls of the last minute that overlap, the
\* second still running
Histories ==
  {<<Span(now - 50000, Some(now - 40000))>>,
   <<Span(now - TL_WINDOW - 90000, Some(now - TL_WINDOW - 80000)),
     Span(now - 60000, Some(now - 30000)),
     Span(now - 45000, None)>>}

\* the track is TrackWidth pixels wide; drags start and end on these pixels
TrackWidth == 1000
DragPixels == {0, 4, 20, 30, 500, 1000}

\* the ranges a click can ask for
ClickZooms ==
  {sessionZoom(a) : a \in TimelineAgents}
    \cup UNION {{blockZoom(h[k]) : k \in 1..Len(h)} : h \in Histories}

\* The timeline body and its zoom over the sampled sessions and histories.
NextZoom ==
  \/ \E a \in TimelineAgents : Quiet(HostAdd(a))
  \/ Quiet(Mount)
  \/ Quiet(SelectMode("timeline"))
  \/ \E B \in Batches, id \in Ids, d \in Histories : Quiet(TlDone(B, id, d))
  \/ \E id \in Ids : Quiet(ZoomLabel(id))
  \/ \E id \in Ids, k \in 1..3 : Quiet(ZoomBlock(id, k))
  \* drags are drawn over the full window and over a range set by a click
  \/ /\ IF tlZoom = None THEN TRUE ELSE tlZoom[1] \in ClickZooms
     /\ \E x1, x2 \in DragPixels : Quiet(ZoomDrag(x1, x2, TrackWidth))
  \/ Quiet(ZoomReset)
  \/ Quiet(Tick)

SpecZoom == Init /\ [][NextZoom]_vars

\* track widths in pixels, and where the pointer goes down and comes up,
\* relative to the left edge of the track (outside the track too)
TrackWidths == {800, TrackWidth}
DownPixels == {-3, 0, 20, 1000}
UpPixels == {-40, 3, 24, 500, 1100}
\* gestures are drawn over the full window, over the range of a click, and
\* over the range of an earlier gesture at least this long, in ms
MinDragWindow == 20000000
\* one session, idle or active, as the roster reports it
DragAgents == {a \in TimelineAgents : a.id = CHOOSE id \in Ids : TRUE}

\* Zoom gestures in two steps, pointer down and pointer up, with whatever the
\* view does in between; every gesture is recorded in `last`.
NextDrag ==
  \/ \E a \in DragAgents : Quiet(HostAdd(a))
  \/ Quiet(Mount)
  \/ Quiet(Unmount)
  \/ \E m \in {"list", "timeline"} :
       Logged(SelectMode(m), Gesture("select_mode", 0, FALSE))
  \/ \E B \in Batches, id \in Ids : Quiet(TlDone(B, id, <<>>))
  \/ \E id \in Ids : Logged(ZoomLabel(id), Gesture("zoom_label", 0, TRUE))
  \/ /\ \/ getTimeWindow(St).end - getTimeWindow(St).start >= MinDragWindow
        \/ getTimeWindow(St) \in ClickZooms
     /\ \E x \in DownPixels, w \in TrackWidths :
          Logged(DragDown(x, w), Gesture("drag_down", 0, FALSE))
  \/ \E x \in UpPixels : DragUp(x)
  \/ Logged(ZoomReset, Gesture("zoom_reset", 0, TRUE))
  \/ Quiet(Tick)

SpecDrag == Init /\ [][NextDrag]_vars

\* The sub-agent panels of sessions that are not active: the user's clicks are
\* recorded in `last` (err says that the click collapsed the panel) and stay
\* on record while fetches settle and events arrive.
NextSticky ==
  \/ \E a \in IdleAgents : Keeps(HostAdd(a))
  \/ Keeps(Mount)
  \/ \E id \in Ids :
       Logged(ToggleExpand(id), Event("toggle_expand", id, 0, id \in DOMAIN expanded))
  \/ \E id \in Ids : Keeps(ToolDone(id, FALSE))
  \/ Keeps(Tick)
  \/ \E id \in Ids, d \in Data : Keeps(ExpandDone(id, d))
  \/ \E id \in Ids : Keeps(ExpandFail(id))

SpecSticky == Init /\ [][NextSticky]_vars

\* The mode machine and the slow refresh timer, over rosters of idle and
\* active agents; tab clicks and the timer are recorded in `last`.
NextMode ==
  \/ \E a \in PlainAgents : Quiet(HostAdd(a))
  \/ Quiet(Mount)
  \/ Quiet(Unmount)
  \/ \E m \in Modes : Logged(SelectMode(m), Event("select_mode", m, 0, FALSE))
  \/ Logged(TlTick, Event("tl_tick", "", 0, FALSE))
  \/ \E id \in Ids, d \in Data : Quiet(ExpandDone(id, d))
  \/ \E id \in Ids, d \in Data : Quiet(StatsDone(id, d))
  \/ \E id \in Ids : Quiet(RetroDone(id, None))
  \/ \E B \in Batches, id \in Ids, d \in Data : Quiet(TlDone(B, id, d))

SpecMode == Init /\ [][NextMode]_vars

\* The lifecycle: mounts and unmounts over a roster that grows between
\* them, with modes, zooms, events, timers and fetches that outlive the view.
\* An unmount is recorded with the mode and the zoom it found.
NextTeardown ==
  \/ \E a \in PlainAgents : Quiet(HostAdd(a))
  \/ Quiet(Mount)
  \/ Logged(Unmount, Event("unmount", mode, 0, tlZoom # None))
  \/ \E m \in {"list", "timeline"} : Quiet(SelectMode(m))
  \/ \E id \in Ids : Quiet(ZoomLabel(id))
  \/ \E id \in Ids : Quiet(AgentCreated(id))
  \/ \E id \in Ids : Quiet(ToolDone(id, FALSE))
  \/ Quiet(Tick)
  \/ Quiet(TlTick)
  \/ \E id \in Ids, d \in Data : Quiet(ExpandDone(id, d))
  \/ \E B \in Batches, id \in Ids, d \in Data : Quiet(TlDone(B, id, d))

SpecTeardown == Init /\ [][NextTeardown]_vars

\* roster entries whose counters the host leaves out, reports as zero or
\* reports as positive
HostTurns == 3
CounterAgents ==
  {[Agent(id, "idle", None, ec) EXCEPT !.turnCount = tc] :
     id \in Ids,
     ec \in {None} \cup {Some(n) : n \in 0..MaxHostErr},
     tc \in {None, Some(0), Some(HostTurns)}}

\* The four events that re-sync a row, over rosters whose counters change.
NextRoster ==
  \/ \E a \in CounterAgents : Quiet(HostAdd(a))
  \/ \E a \in CounterAgents : Quiet(HostSet(a))
  \/ Quiet(Mount)
  \/ \E id \in Ids, ts \in {u \in Times : u <= now} :
       Logged(ToolStart(id, ts), Event("tool_start", id, ts, FALSE))
  \/ \E id \in Ids, e \in BOOLEAN :
       Logged(ToolDone(id, e), Event("tool_done", id, 0, e))
  \/ \E id \in Ids :
       Logged(StatusChanged(id), Event("status_changed", id, 0, FALSE))
  \/ \E id \in Ids :
       Logged(TurnComplete(id), Event("turn_complete", id, 0, FALSE))

SpecRoster == Init /\ [][NextRoster]_vars

\* Removal and creation events among fetches that are in flight: `last` is
\* the last event delivered, whatever clicks and fetch results came after it,
\* as long as the roster has not grown since.
NextGone ==
  \/ \E a \in IdleAgents : Quiet(HostAdd(a))
  \/ \E id \in Ids : Keeps(HostRemove(id))
  \/ Keeps(Mount)
  \/ \E id \in Ids :
       Logged(AgentCreated(id), Event("agent_created", id, 0, FALSE))
  \* the host drops an agent from the roster before it emits agent_removed
  \/ \E id \in Ids :
       /\ id \notin RosterIds(agents)
       /\ Logged(AgentRemoved(id), Event("agent_removed", id, 0, FALSE))
  \/ \E m \in {"list", "timeline"} : Keeps(SelectMode(m))
  \/ \E id \in Ids : Keeps(ToggleExpand(id))
  \/ \E id \in Ids, d \in Data : Keeps(ExpandDone(id, d))
  \/ \E B \in Batches, id \in Ids, d \in Data : Keeps(TlDone(B, id, d))

SpecGone == Init /\ [][NextGone]_vars

\* what two requests for the same session may resolve to
Results == {"d1", "d2"}

\* the arrival of the result d of a fetch of the given kind for id, as `last`
\* records it
Settled(kind, id, d) ==
  [ev |-> kind, id |-> id, ts |-> 0, err |-> FALSE, afterRemoved |-> FALSE,
   data |-> d]

\* Fetches that overtake each other: tool_done and the slow timer invalidate
\* and refetch while earlier requests are outstanding, and every arrival is
\* recorded in `last`.
NextRace ==
  \/ \E a \in PlainAgents : Quiet(HostAdd(a))
  \/ Quiet(Mount)
  \/ \E id \in Ids : Quiet(ToolDone(id, FALSE))
  \/ Quiet(TlTick)
  \/ \E m \in Modes : Quiet(SelectMode(m))
  \/ \E id \in Ids, d \in Results :
       Logged(ExpandDone(id, d), Settled("expand_done", id, d))
  \/ \E id \in Ids, d \in Results :
       Logged(StatsDone(id, d), Settled("stats_done", id, d))
  \/ \E B \in Batches, id \in Ids, d \in Results :
       Logged(TlDone(B, id, d), Settled("tl_done", id, d))
  \/ \E id \in Ids : Quiet(RetroDone(id, None))

SpecRace == Init /\ [][NextRace]_vars

\* The stats view and its retro analysis; the arrival of a retro result is
\* recorded in `last` with what the redraw of that arrival shows for the id.
NextRetro ==
  \/ \E a \in IdleAgents : Quiet(HostAdd(a))
  \/ Quiet(Mount)
  \/ \E m \in Modes : Quiet(SelectMode(m))
  \/ \E id \in Ids : Quiet(DagSelect(id))
  \/ \E id \in Ids, d \in Data : Quiet(StatsDone(id, d))
  \/ \E B \in Batches, id \in Ids, d \in Data : Quiet(TlDone(B, id, d))
  \/ \E id \in Ids, p \in RetroPayloads :
       Logged(RetroDone(id, p), Settled("retro_done", id, OnRetroDoneDraws(St, id, p)))
  \/ Quiet(Tick)

SpecRetro == Init /\ [][NextRetro]_vars

\* a step that ends in a call of render(), as `last` records it
Redraw == Event("redraw", "", 0, FALSE)

\* The stats selection while the host adds and removes agents: every step
\* that ends in render() without touching the selection first is recorded in
\* `last`.
NextSel ==
  \/ \E a \in PlainAgents : Quiet(HostAdd(a))
  \/ \E id \in Ids : Quiet(HostRemove(id))
  \/ Quiet(Mount)
  \* a click on the tab of the current mode does nothing
  \/ \E m \in {"list", "dag"} : mode # m /\ Logged(SelectMode(m), Redraw)
  \/ \E id \in Ids : Quiet(DagSelect(id))
  \/ \E id \in Ids : Quiet(AgentRemoved(id))
  \/ Logged(Tick, Redraw)
  \/ \E id \in Ids, d \in Data : Logged(StatsDone(id, d), Redraw)
  \/ \E id \in Ids : Logged(RetroDone(id, None), Redraw)

SpecSel == Init /\ [][NextSel]_vars

\* tool-call lists of at most MaxSpans calls
MaxSpans == 4
\* the window the lanes are drawn in
LaneWindow == [start |-> 0, end |-> 10000]
\* calls that end before the window, lie inside it and start after it; each
\* lasts 1 s or 1.5 s or is still running
SpanSamples ==
  {Span(ts, IF d = 0 THEN None ELSE Some(ts + d)) :
     ts \in {-5000, 1000, 2000, 20000}, d \in {0, 1000, 1500}}

RECURSIVE SpanLists(_)
SpanLists(n) ==
  IF n = 0 THEN {<<>>}
  ELSE SpanLists(n - 1)
         \cup {Append(l, sa) : l \in {x \in SpanLists(n - 1) : Len(x) = n - 1},
                               sa \in SpanSamples}

\* The lane assignment over every list of sampled calls, in any order, each
\* list drawn once.
NextLanes ==
  /\ out = NoOut
  /\ \E subs \in SpanLists(MaxSpans) : Quiet(DrawLanes(subs, LaneWindow))

SpecLanes == Init /\ [][NextLanes]_vars

\* ------------------------------------------------------------------ claims

\* C1: in every reachable state at most one sub-agent panel fetch per session
\* id is in flight.
C1_OneExpandFetch ==
  \A id \in Ids : fetches[<<"expand", id>>] <= 1

\* C2: in every reachable state at most one fetch per session id is in flight
\* for the timeline cache, counting the requests of every loadTimelineData call
\* and the stats panel's own request.
C2_OneTimelineFetch ==
  \A id \in Ids : TlInflight(tlBatches, id) + fetches[<<"stats", id>>] <= 1

\* this step is no unmount
StaysMounted == mounted => mounted'

\* this step settles a retro fetch for id
RetroSettles(id) == fetches'[<<"retro", id>>] < fetches[<<"retro", id>>]

\* C3: within one mount at most one retro fetch is issued per session id; a
\* stored entry is kept as it is by every step that is no unmount and no
\* settling retro fetch, no step issues a retro fetch for an id with a stored
\* entry, and a stored null draws no retro panel.
C3_RetroCache ==
  /\ [](\A id \in Ids :
          /\ retroIssued[id] <= 1
          /\ (id \in DOMAIN retroData /\ retroData[id] = None)
               => renderRetroPanel(id) = "")
  /\ [][\A id \in DOMAIN retroData :
          StaysMounted =>
            /\ id \in DOMAIN retroData'
            /\ ~RetroSettles(id) => retroData'[id] = retroData[id]
            /\ fetches'[<<"retro", id>>] <= fetches[<<"retro", id>>]
            /\ retroIssued'[id] <= retroIssued[id]]_vars

\* C3 happens: the stats view shows an id whose one retro fetch stored null
C3_Witness ==
  \E id \in Ids :
    /\ mounted /\ mode = "dag" /\ dagSel = Some(id)
    /\ id \in DOMAIN tlData
    /\ id \in DOMAIN retroData /\ retroData[id] = None
    /\ retroIssued[id] = 1
    /\ fetches[<<"retro", id>>] = 0

\* the events that leave a row for an id the roster holds
CreatingEvents == {"agent_created", "subagent_created", "tool_start", "tool_done"}

\* C4 as stated: after agent_removed for X, any other event for X leaves the
\* store without a row for X, whatever the roster contains.
C4_Original ==
  (mounted /\ last.afterRemoved) => last.id \notin DOMAIN rows

\* C4: after agent_removed for X, the next event for X leaves the store
\* without a row for X exactly when the roster does not hold X or the event is
\* status_changed, turn_complete or a removal; otherwise it leaves a row for X.
C4_RemovalThenEvent ==
  (mounted /\ last.afterRemoved) =>
    (last.id \in DOMAIN rows
       <=> (last.id \in RosterIds(agents) /\ last.ev \in CreatingEvents))

\* C4 happens: tool_start for X right after agent_removed for X, X gone from
\* the roster, and no row for X
C4_Witness ==
  /\ mounted /\ last.afterRemoved /\ last.ev = "tool_start"
  /\ last.id \notin RosterIds(agents)
  /\ last.id \notin DOMAIN rows
  /\ DOMAIN rows # {}

\* C5: right after agent_removed or subagent_removed for X is applied, X is in
\* none of the row store, the expansion map and the timeline cache, and is not
\* the stats selection.
C5_TotalRemoval ==
  [][\A id \in Ids :
       (AgentRemoved(id) \/ SubagentRemoved(id)) =>
         /\ id \notin DOMAIN rows'
         /\ id \notin DOMAIN expanded'
         /\ id \notin DOMAIN tlData'
         /\ dagSel' # Some(id)]_vars

\* C6: after tool_start with timestamp t for an id that has a row, the row's
\* tool-start instant is t.
C6_ToolStartSetsInstant ==
  (mounted /\ last.ev = "tool_start" /\ last.id \in DOMAIN rows) =>
    rows[last.id].toolStartedAt = Some(last.ts)

\* this step delivers event ev to id
Delivers(ev, id) == now' = now /\ last'.ev = ev /\ last'.id = id

\* C7: tool_done for an id that has a row clears the row's tool-start instant,
\* and raises the row's error count only when the payload marks an error.
C7_ToolDoneClears ==
  [][\A id \in DOMAIN rows :
       Delivers("tool_done", id) =>
         /\ id \in DOMAIN rows'
         /\ rows'[id].toolStartedAt = None
         /\ rows'[id].errorCount > rows[id].errorCount => last'.err]_vars

\* C8: tool_done delivered a second time in a row, with the same payload and
\* the same roster, leaves the rows as the first delivery left them.
C8_DuplicateToolDone ==
  [][\A id \in Ids :
       (Delivers("tool_done", id) /\ last.ev = "tool_done" /\ last.id = id
          /\ last.err = last'.err)
         => rows' = rows]_vars

\* C9: at the render 200,000 ms after tool_start at t0 for an agent, with no
\* event in between, the agent's row is stuck, its bar is filled to 100% and
\* the header counts it.
C9_StuckScenario ==
  (mounted /\ last.ev = "tool_start" /\ last.id \in DOMAIN rows
     /\ now = last.ts + 200 * TICK_MS) =>
    /\ isStuck(rows[last.id])
    /\ rowClass(rows[last.id]) = "c-stuck"
    /\ barPct(elapsedMs(rows[last.id])).num = 100 * barPct(elapsedMs(rows[last.id])).den
    /\ last.id \in stuckRows
    /\ stuckN >= 1

\* the events the store creates rows for on demand
LazyEvents == {"tool_start", "tool_done", "status_changed", "turn_complete"}

\* C10: after tool_start, tool_done, status_changed or turn_complete for an id
\* the roster holds, the store has a row for the id.
C10_LazyCreation ==
  (mounted /\ last.ev \in LazyEvents /\ last.id \in RosterIds(agents)) =>
    last.id \in DOMAIN rows

\* the creation events
Creations == {"agent_created", "subagent_created"}

\* C11: agent_created or subagent_created for an id the roster does not hold
\* leaves the row store, the expansion map and the timeline cache as they were
\* and issues no fetch.
C11_UnknownCreationIgnored ==
  [][\A id \in Ids :
       ((Delivers("agent_created", id) \/ Delivers("subagent_created", id))
          /\ id \notin RosterIds(agents))
         => UNCHANGED <<rows, expanded, tlData, fetches, tlBatches>>]_vars

\* C11 happens: a creation event was delivered in timeline mode for an
\* id that left the roster and still has a row
C11_Witness ==
  /\ mounted /\ last.ev \in Creations
  /\ last.id \notin RosterIds(agents)
  /\ last.id \in DOMAIN rows
  /\ mode # "list"

\* the row of the roster entry a lags behind a
RowLags(a) ==
  /\ mounted /\ a.id \in DOMAIN rows
  /\ FindAgent(agents, a.id) = Some(a)
  /\ rows[a.id] # syncRow(St, a.id).rows[a.id]

\* C12: while the view stays mounted and a roster entry stays as it is, a row
\* that lags behind the entry is brought up to date by the timers alone.
C12_PeriodicResync ==
  \A a \in SyncAgents : RowLags(a) ~> ~RowLags(a)

\* the agent of roster ags named id
AgentOf(ags, id) == FindAgent(ags, id)[1]

\* a's parent id names an agent of ags
HasParentIn(ags, a) == a.parentId # None /\ a.parentId[1] \in RosterIds(ags)

RECURSIVE Up(_, _, _)
\* the agents reached from id by at most n parent pointers
Up(ags, id, n) ==
  IF n = 0 \/ id \notin RosterIds(ags) THEN {}
  ELSE LET a == AgentOf(ags, id)
       IN IF ~HasParentIn(ags, a) THEN {}
          ELSE {a.parentId[1]} \cup Up(ags, a.parentId[1], n - 1)

RECURSIVE AncAt(_, _, _)
\* the id reached from id by n parent pointers
AncAt(ags, id, n) ==
  IF n = 0 THEN id ELSE AncAt(ags, AgentOf(ags, id).parentId[1], n - 1)

\* the place of id in the entries flat
Pos(flat, id) == CHOOSE j \in 1..Len(flat) : flat[j].id = id

\* id is the last of the agents of ags with its parent id
LastChild(ags, id) ==
  LET sibs == SelectSeq(ags, LAMBDA b : b.parentId = AgentOf(ags, id).parentId)
  IN sibs[Len(sibs)].id = id

\* C13: for every roster, cycles and self-parents included, buildFlat emits
\* exactly one entry per agent, every child after its parent and inside its
\* parent's block, and siblings in roster order.
C13_OneEntryPreOrder ==
  out.fn = "buildFlat" =>
    LET ags == out.arg
        flat == out.val
    IN /\ Len(flat) = Len(ags)
       /\ \A i \in 1..Len(ags) : \E j \in 1..Len(flat) : flat[j].id = ags[i].id
       /\ \A i \in 1..Len(ags) :
            HasParentIn(ags, ags[i]) =>
              LET pp == Pos(flat, ags[i].parentId[1])
                  pc == Pos(flat, ags[i].id)
              IN /\ pp < pc
                 /\ \A k \in (pp + 1)..(pc - 1) :
                      ags[i].parentId[1] \in Up(ags, flat[k].id, Len(ags))
       /\ \A i, j \in 1..Len(ags) :
            (i < j /\ ags[i].parentId = ags[j].parentId)
              => Pos(flat, ags[i].id) < Pos(flat, ags[j].id)

\* C14: every agent without a parent id, or with a parent id that names no
\* roster agent, has exactly one entry, at depth 0 with the empty prefix.
C14_OrphansAreRoots ==
  out.fn = "buildFlat" =>
    LET ags == out.arg
        flat == out.val
    IN \A i \in 1..Len(ags) :
         ~HasParentIn(ags, ags[i]) =>
           /\ \E j \in 1..Len(flat) : flat[j].id = ags[i].id
           /\ \A j \in 1..Len(flat) :
                flat[j].id = ags[i].id =>
                  /\ flat[j].depth = 0
                  /\ flat[j].prefix = <<>>
                  /\ j = Pos(flat, ags[i].id)

\* C14 happens: a tree with a child was flattened together with an agent whose
\* parent id names no agent
C14_Witness ==
  /\ out.fn = "buildFlat"
  /\ \E i \in 1..Len(out.arg) : out.arg[i].parentId = Some(Orphaned)
  /\ \E j \in 1..Len(out.val) : out.val[j].depth >= 1

\* the chain a1 <- a2 <- a3
Chain ==
  <<[Agent("a1", "idle", None, None) EXCEPT !.parentId = None],
    [Agent("a2", "idle", None, None) EXCEPT !.parentId = Some("a1")],
    [Agent("a3", "idle", None, None) EXCEPT !.parentId = Some("a2")]>>

\* C15: a root has the empty prefix; an entry at depth d >= 1 has d segments
\* (3*d characters): for each ancestor at depth 1..d-1 the blank continuation
\* if that ancestor is a last child and the bar otherwise, then the last-branch
\* glyph if the entry is a last child and the branch glyph otherwise; the chain
\* a1 <- a2 <- a3 gives [a1, a2, a3] with "", last-branch, blank + last-branch.
C15_PrefixScheme ==
  out.fn = "buildFlat" =>
    LET ags == out.arg
        flat == out.val
    IN /\ \A j \in 1..Len(flat) :
            LET n == flat[j]
                d == n.depth
            IN /\ d = Cardinality(Up(ags, n.id, Len(ags)))
               /\ SegChars * Len(n.prefix) = 3 * d
               /\ d >= 1 =>
                    /\ n.prefix[d] =
                         IF LastChild(ags, n.id) THEN BranchLast ELSE BranchMid
                    /\ \A k \in 1..(d - 1) :
                         n.prefix[k] =
                           IF LastChild(ags, AncAt(ags, n.id, d - k))
                           THEN ContLast ELSE ContMid
       /\ ags = Chain =>
            /\ [j \in 1..Len(flat) |-> flat[j].id] = <<"a1", "a2", "a3">>
            /\ [j \in 1..Len(flat) |-> flat[j].prefix]
                 = << <<>>, <<BranchLast>>, <<ContLast, BranchLast>> >>

\* C15 happens: an entry two levels down whose parent is not a last child
C15_Witness ==
  /\ out.fn = "buildFlat"
  /\ \E j \in 1..Len(out.val) :
       out.val[j].depth = 2 /\ out.val[j].prefix = <<ContMid, BranchLast>>
  /\ \E j \in 1..Len(out.val) : out.val[j].prefix = <<ContLast, BranchLast>>
       \/ Len(out.val) >= 4

\* the classes in rising severity
Severity(c) == IF c = "c-ok" THEN 0 ELSE IF c = "c-long" THEN 1 ELSE 2

\* C16: durClass gives ok below 60,000 ms, long from 60,000 to 179,999 ms and
\* stuck from 180,000 ms on, and never a lower severity for a larger time.
C16_DurClassThresholds ==
  out.fn = "durClass" =>
    /\ out.arg < 60000 => out.val = "c-ok"
    /\ (out.arg >= 60000 /\ out.arg <= 179999) => out.val = "c-long"
    /\ out.arg >= 180000 => out.val = "c-stuck"
    /\ \A ms \in DurSamples :
         ms <= out.arg => Severity(durClass(ms)) <= Severity(out.val)

\* C16 happens: exactly 60,000 ms was classified, as long
C16_Witness ==
  out.fn = "durClass" /\ out.arg = 60000 /\ out.val = "c-long"

\* C17: for a window of one hour, whatever its start, tlTicks chooses an
\* interval of at least 7.5 minutes and at most 1 hour and makes 6 to 10 ticks.
C17_HourWindow ==
  (out.fn = "tlTicks" /\ out.arg[2] - out.arg[1] = 3600000) =>
    /\ 2 * out.val.interval >= 15 * 60000
    /\ out.val.interval <= 3600000
    /\ Len(out.val.ticks) >= 6
    /\ Len(out.val.ticks) <= 10

\* C17 happens: a one-hour window starting off every candidate was drawn
C17_Witness ==
  /\ out.fn = "tlTicks" /\ out.arg[2] - out.arg[1] = 3600000
  /\ out.arg[1] % 1000 # 0
  /\ Len(out.val.ticks) = 6

\* C18: tlTicks chooses the first candidate of at least an eighth of the window,
\* or the last candidate when there is none; the ticks are the multiples of the
\* interval in [start, end], each once, in rising order, each with the
\* percentage (t - start) / (end - start) * 100, which lies in 0..100.
C18_TickPlacement ==
  out.fn = "tlTicks" =>
    LET start == out.arg[1]
        end == out.arg[2]
        dur == end - start
        iv == out.val.interval
        ticks == out.val.ticks
        lo == IF start % iv = 0 THEN start \div iv ELSE start \div iv + 1
        hi == end \div iv
    IN /\ \E i \in 1..Len(INTERVALS) :
            /\ iv = INTERVALS[i]
            /\ \A j \in 1..(i - 1) : 8 * INTERVALS[j] < dur
            /\ 8 * iv >= dur \/ i = Len(INTERVALS)
       /\ Len(ticks) = IF hi >= lo THEN hi - lo + 1 ELSE 0
       /\ \A k \in 1..Len(ticks) :
            /\ ticks[k].t = (lo + k - 1) * iv
            /\ ticks[k].t >= start /\ ticks[k].t <= end
            /\ ticks[k].pctNum = ticks[k].t - start
            /\ ticks[k].pctDen = dur
            /\ ticks[k].pctNum >= 0 /\ ticks[k].pctNum <= ticks[k].pctDen

\* C18 happens: a window longer than eight times the last candidate was drawn
\* with the last candidate, a tick on each end
C18_Witness ==
  /\ out.fn = "tlTicks"
  /\ out.arg[2] - out.arg[1] > 8 * INTERVALS[Len(INTERVALS)]
  /\ out.val.interval = INTERVALS[Len(INTERVALS)]
  /\ Len(out.val.ticks) = 9
  /\ out.val.ticks[1].pctNum = 0

\* C19: in every reachable state an explicit zoom range is at least 500 ms
\* long, whichever of the drag, the label click and the block click set it.
C19_MinZoomMargin ==
  tlZoom # None => tlZoom[1].end - tlZoom[1].start >= 500

\* the span [ts, te] lies entirely outside the window win
Outside(ts, te, win) == te < win.start \/ ts > win.end

\* C20: at every render of the timeline a session that lies entirely outside
\* the window has no bar, and a tool call that lies entirely outside the window
\* has no block.
C20_OutsideSpansExcluded ==
  (mounted /\ mode = "timeline") =>
    LET win == getTimeWindow(St)
        lanes == renderTimeline(St)
    IN \A i \in 1..Len(lanes) :
         LET a == AgentOf(agents, lanes[i].id)
         IN /\ Outside(sessionStart(a), sessionEnd(a), win) => lanes[i].bars = <<>>
            /\ \A b \in 1..Len(lanes[i].blocks) :
                 LET sa == tlData[lanes[i].id][lanes[i].blocks[b].span]
                 IN ~Outside(spanStart(sa), spanEnd(sa), win)

\* requests for the tool-call history of id that are outstanding
HistoryInflight(b, f, id) == TlInflight(b, id) + f[<<"stats", id>>]

\* C21: the mode is list after mount; while the view stays mounted the mode
\* changes only by a tab click, a click on the tab of the current mode changes
\* nothing, and after a click that enters timeline or stats a history fetch is
\* outstanding for every roster agent whose history is not cached.
C21_ModeMachine ==
  [][/\ (~mounted /\ mounted') => mode' = "list"
     /\ (mounted /\ mounted' /\ mode' # mode) => Delivers("select_mode", mode')
     /\ Delivers("select_mode", mode) => UNCHANGED viewVars
     /\ \A m \in {"timeline", "dag"} :
          (Delivers("select_mode", m) /\ mode # m) =>
            \A id \in RosterIds(agents) \ DOMAIN tlData :
              HistoryInflight(tlBatches', fetches', id) > 0]_vars

\* the roster lists id as active
ActiveInRoster(id) ==
  \E i \in 1..Len(agents) : agents[i].id = id /\ agents[i].status = "active"

\* C22: the slow timer changes no cache and issues no fetch in list mode; in
\* timeline and stats mode it drops from the timeline cache exactly the entries
\* of the agents the roster lists as active, keeps every other entry as it is,
\* and issues a fetch for every roster agent then missing from the cache.
C22_SlowRefresh ==
  [][Delivers("tl_tick", "") =>
       IF mode = "list"
       THEN UNCHANGED <<expanded, tlData, retroData, fetches, tlBatches>>
       ELSE /\ DOMAIN tlData' = {id \in DOMAIN tlData : ~ActiveInRoster(id)}
            /\ \A id \in DOMAIN tlData' : tlData'[id] = tlData[id]
            /\ \A id \in RosterIds(agents) \ DOMAIN tlData' :
                 TlInflight(tlBatches', id) > TlInflight(tlBatches, id)]_vars

\* the timer has just dropped the history of an active agent and refetches it,
\* and has kept the history of an idle one
C22_Witness ==
  /\ mounted /\ last.ev = "tl_tick" /\ mode \in {"timeline", "dag"}
  /\ \E id \in DOMAIN tlData : ~ActiveInRoster(id)
  /\ \E id \in Ids :
       /\ ActiveInRoster(id) /\ id \notin DOMAIN tlData
       /\ TlInflight(tlBatches, id) > 0

\* the row store mount builds from the roster
FreshRows == [id \in RosterIds(agents) |-> rowFromAgent(FindAgent(agents, id)[1])]

\* C23: an unmount clears both timers and releases every subscription and the
\* key listener, resets the mode to list and the zoom to the full window and
\* empties the row store; while the view is unmounted no timer is set, nothing
\* is subscribed and no step changes the row store; the next mount builds the
\* row store from the roster of that moment alone.
C23_Teardown ==
  [][/\ (mounted /\ ~mounted') =>
          /\ ~tick' /\ ~tlTick' /\ unsubs' = {}
          /\ mode' = "list" /\ tlZoom' = None /\ rows' = EmptyMap
     /\ (~mounted /\ ~mounted') =>
          /\ ~tick' /\ ~tlTick' /\ unsubs' = {}
          /\ rows' = rows
     /\ (~mounted /\ mounted') => rows' = FreshRows]_vars

\* the view was just torn down in timeline mode with a zoom set and with
\* fetches still outstanding
C23_Witness ==
  /\ ~mounted /\ last.ev = "unmount" /\ last.id = "timeline" /\ last.err
  /\ mode = "list" /\ tlZoom = None /\ rows = EmptyMap
  /\ Inflight(St) > 0

\* the events whose handlers end with syncRow
SyncEvents == {"tool_start", "tool_done", "status_changed", "turn_complete"}

\* C24: right after an event that re-syncs the row of X, every counter that
\* the roster entry of X defines has the roster's value in the row, a roster
\* value of zero and a local increment by a failed tool_done included.
C24_RosterWins ==
  (mounted /\ last.ev \in SyncEvents /\ last.id \in DOMAIN rows
     /\ last.id \in RosterIds(agents)) =>
    LET a == FindAgent(agents, last.id)[1]
        row == rows[last.id]
    IN /\ a.errorCount # None => row.errorCount = a.errorCount[1]
       /\ a.turnCount # None => row.turnCount = a.turnCount[1]

\* a failed tool_done was just delivered, its handler counted the error in the
\* row, and the roster's zero has replaced the count
C24_Witness ==
  /\ mounted /\ last.ev = "tool_done" /\ last.err
  /\ last.id \in DOMAIN rows /\ last.id \in RosterIds(agents)
  /\ FindAgent(agents, last.id)[1].errorCount = Some(0)
  /\ rows[last.id].errorCount = 0

\* this step settles the last outstanding panel fetch of id
LastExpandSettles(id) ==
  /\ fetches'[<<"expand", id>>] < fetches[<<"expand", id>>]
  /\ fetches'[<<"expand", id>>] = 0

\* C25: when the last outstanding sub-agent panel fetch of a session settles,
\* by failing too, the expansion map does not keep the session marked as
\* pending, so that the panel does not stay in the loading state and the next
\* access issues a new fetch.
C25_FailureRetryable ==
  [][\A id \in Ids :
       (LastExpandSettles(id) /\ id \in DOMAIN expanded') =>
         expanded'[id] # None]_vars

\* the list view draws the panel of the roster agent a in the loading state
PanelLoading(a) ==
  /\ mounted /\ mode = "list"
  /\ isExpanded(a) /\ renderSubagentPanel(a.id) = "loading"

\* C26: whenever the list view draws the sub-agent panel of a session in the
\* loading state, a fetch of that session's sub-agents is outstanding.
C26_LoadingHasFetch ==
  \A i \in 1..Len(agents) :
    PanelLoading(agents[i]) => fetches[<<"expand", agents[i].id>>] > 0

\* C27: in every state in which the last event delivered is agent_removed for
\* X, and the roster has dropped X, neither the expansion map nor the timeline
\* cache has an entry for X, whatever fetches settled since the removal.
C27_RemovalStaysTotal ==
  (mounted /\ last.ev = "agent_removed" /\ last.id \notin RosterIds(agents)) =>
    /\ last.id \notin DOMAIN expanded
    /\ last.id \notin DOMAIN tlData

\* C28: right after the result of a fetch arrives, its cache holds that result
\* under the fetch's key, whether or not other requests for the key are still
\* outstanding and whether or not the key was invalidated in between.
C28_LastWriteWins ==
  /\ last.ev = "expand_done" =>
       last.id \in DOMAIN expanded /\ expanded[last.id] = Some(last.data)
  /\ last.ev \in {"tl_done", "stats_done"} =>
       last.id \in DOMAIN tlData /\ tlData[last.id] = last.data

\* the result of a panel fetch was stored while another request for the same
\* session is still outstanding
C28_Witness ==
  /\ last.ev = "expand_done"
  /\ expanded[last.id] = Some(last.data)
  /\ fetches[<<"expand", last.id>>] > 0

\* the largest number of a non-empty set
SetMax(S) == CHOOSE x \in S : \A y \in S : y <= x

\* the calls of subs that are not outside the window, by index, in list order
InWindow(subs, win) ==
  SelectSeq([k \in 1..Len(subs) |-> k],
            LAMBDA k : ~Outside(spanStart(subs[k]), spanEnd(subs[k]), win))

\* the ends of the calls among the first i blocks that were placed in lane l
LaneEnds(subs, blocks, i, l) ==
  {spanEnd(subs[blocks[j].span]) : j \in {x \in 1..i : blocks[x].lane = l}}

\* the blocks are the calls inside the window in list order, each in lane 1
\* or 2, in lane 2 exactly when it starts before the latest end of lane 1
LaneRule(subs, blocks) ==
  /\ [i \in 1..Len(blocks) |-> blocks[i].span] = InWindow(subs, LaneWindow)
  /\ \A i \in 1..Len(blocks) :
       /\ blocks[i].lane \in {1, 2}
       /\ blocks[i].lane = 2 <=>
            /\ LaneEnds(subs, blocks, i - 1, 1) # {}
            /\ spanStart(subs[blocks[i].span]) < SetMax(LaneEnds(subs, blocks, i - 1, 1))

\* after block i the end recorded for lane l is the latest end placed there
RecordsLatest(subs, blocks, i, l) ==
  blocks[i].ends[l] =
    IF LaneEnds(subs, blocks, i, l) = {} THEN None
    ELSE Some(SetMax(LaneEnds(subs, blocks, i, l)))

\* after block i the end recorded for lane l is the end of the call placed
\* there last
RecordsLast(subs, blocks, i, l) ==
  blocks[i].ends[l] =
    IF LaneEnds(subs, blocks, i, l) = {} THEN None
    ELSE LET j == SetMax({x \in 1..i : blocks[x].lane = l})
         IN Some(spanEnd(subs[blocks[j].span]))

\* C29 as stated: the lane rule, and the end recorded for either lane is the
\* latest end among the calls placed in that lane so far.
C29_Original ==
  out.fn = "lanes" =>
    /\ LaneRule(out.arg, out.val)
    /\ \A i \in 1..Len(out.val), l \in {1, 2} :
         RecordsLatest(out.arg, out.val, i, l)

\* C29: calls outside the window are skipped without touching the lane state,
\* the others are placed in list order in lane 1 or 2, in lane 2 exactly when
\* the call starts before the end recorded for lane 1; the end recorded for
\* lane 1 is the latest end placed there, the end recorded for lane 2 is the
\* end of the call placed there last.
C29_LaneRule ==
  out.fn = "lanes" =>
    /\ LaneRule(out.arg, out.val)
    /\ \A i \in 1..Len(out.val) :
         /\ RecordsLatest(out.arg, out.val, i, 1)
         /\ RecordsLast(out.arg, out.val, i, 2)

\* three overlapping calls were drawn after one that was skipped: the first
\* in lane 1, the next two in lane 2, the later of them ending earlier
C29_Witness ==
  /\ out.fn = "lanes" /\ Len(out.arg) > Len(out.val)
  /\ \E i, j \in 1..Len(out.val) :
       /\ i < j /\ out.val[i].lane = 2 /\ out.val[j].lane = 2
       /\ out.val[j].ends[2][1] < spanEnd(out.arg[out.val[i].span])

\* C30: for an elapsed time of at least 0, barPct is elapsed / 180,000 * 100
\* below 180,000 ms and 100 from there on, never above 100, never smaller for
\* a larger time, and 100 exactly when durClass calls the time stuck.
C30_BarFill ==
  (out.fn = "barPct" /\ out.arg >= 0) =>
    /\ out.arg < 180000 => (out.val.num = 100 * out.arg /\ out.val.den = 180000)
    /\ out.arg >= 180000 => out.val.num = 100 * out.val.den
    /\ out.val.num <= 100 * out.val.den
    /\ \A ms \in DurSamples :
         (0 <= ms /\ ms <= out.arg) =>
           (barPct(ms).den = out.val.den /\ barPct(ms).num <= out.val.num)
    /\ out.val.num = 100 * out.val.den <=> durClass(out.arg) = "c-stuck"

\* the bar was filled for 179,999 ms, the last time that is not stuck, and is
\* short of 100
C30_Witness ==
  /\ out.fn = "barPct" /\ out.arg = 179999
  /\ out.val.num < 100 * out.val.den /\ durClass(out.arg) = "c-long"

\* C31: a mouseup that ends a drag whose extent, after clamping to the track,
\* is below 5 pixels leaves the zoom as it was and does not redraw, whatever
\* the track width and the window.
C31_SmallDragIgnored ==
  [][(last'.ev = "drag_up" /\ last'.extent < 5)
       => (tlZoom' = tlZoom /\ ~last'.drawn)]_vars

\* C31 witness: a drag of 1 to 4 pixels has just ended over a zoomed window
C31_Witness ==
  /\ last.ev = "drag_up" /\ last.extent > 0 /\ last.extent < 5
  /\ mounted /\ tlZoom # None

\* the zoom is the full window or one range
ZoomShape ==
  tlZoom = None \/ (Len(tlZoom) = 1 /\ DOMAIN tlZoom[1] = {"start", "end"})

\* what a step recorded in `last` as a gesture may do to the zoom
ZoomStep ==
  /\ (last'.ev = "zoom_reset") =>
       (/\ tlZoom' = None
        /\ getTimeWindow([tlZoom |-> tlZoom'])
             = [start |-> now - TL_WINDOW, end |-> now])
  /\ (last'.ev = "select_mode") => (tlZoom' = tlZoom)
  /\ (last'.ev = "zoom_label") =>
       (tlZoom' \in {tlZoom, Some(sessionZoom(agents[1]))})
  /\ (last'.ev = "drag_up" /\ last'.drawn) =>
       (/\ tlZoom' # None
        /\ getTimeWindow([tlZoom |-> tlZoom']) = tlZoom'[1])

\* C32: the zoom is always null or one {start, end} pair; an accepted label
\* click or drag stores its own range whatever the zoom was before; one reset
\* leaves the full window [now - 8 h, now]; a mode switch leaves the zoom as
\* it was.
C32_ZoomState == []ZoomShape /\ [][ZoomStep]_vars

\* C32 witness: the user has just left the timeline with a zoom in place
C32_Witness ==
  /\ last.ev = "select_mode" /\ mode = "list" /\ mounted /\ tlZoom # None

\* the range [start - pad, end + pad] with pad = max(10 % of the span, floor)
Padded(start, end, floor) ==
  LET pad == Max((end - start) \div 10, floor)
  IN [start |-> start - pad, end |-> end + pad]

\* the floors a padding may use, in ms
PadFloors == {10000, 15000}

\* C33: at every render of the timeline the range a session label asks for
\* and the range a tool block asks for are [start - pad, end + pad] of their
\* span, with pad = max(10 % of the span, a floor fixed for that kind of click).
C33_ClickPadding ==
  (mounted /\ mode = "timeline") =>
    LET lanes == renderTimeline(St)
    IN /\ \E floor \in PadFloors : \A i \in 1..Len(lanes) :
            LET a == AgentOf(agents, lanes[i].id)
            IN lanes[i].zoom = Padded(sessionStart(a), sessionEnd(a), floor)
       /\ \E floor \in PadFloors : \A i \in 1..Len(lanes) :
            \A b \in 1..Len(lanes[i].blocks) :
              LET sa == tlData[lanes[i].id][lanes[i].blocks[b].span]
              IN lanes[i].blocks[b].zoom = Padded(spanStart(sa), spanEnd(sa), floor)

RECURSIVE FuelAfter(_, _, _, _)
\* the calls of visit that list.forEach(c => visit(c, ...)) makes from entry i
\* on, each call taking one unit of fuel and then visiting the children of
\* its agent: the fuel left, 0 when the calls do not fit in it
FuelAfter(ags, list, i, fuel) ==
  IF fuel = 0 THEN 0
  ELSE IF i > Len(list) THEN fuel
  ELSE LET children == SelectSeq(ags, LAMBDA a : a.parentId = Some(list[i].id))
           below == FuelAfter(ags, children, 1, fuel - 1)
       IN FuelAfter(ags, list, i + 1, below)

\* C34: for every roster, parent cycles and self-references included, the
\* calls buildFlat makes to visit number at most the agents of the roster, so
\* the recursion ends, and the list it returns has one entry per call.
C34_BuildFlatTerminates ==
  LET fuel == Len(agents) + 1
      left == FuelAfter(agents, roots(agents), 1, fuel)
  IN /\ left >= 1
     /\ (out.fn = "buildFlat" /\ out.arg = agents) =>
          /\ Len(out.val) = fuel - left
          /\ \A k \in 1..Len(out.val) : out.val[k].depth < Len(agents)

\* C34 witness: the list was built from a roster with a root, a cycle of two
\* agents and an agent that is its own parent
C34_Witness ==
  /\ out.fn = "buildFlat" /\ out.arg = agents /\ Len(out.val) >= 1
  /\ \E i, j, k \in 1..Len(agents) :
       /\ i # j /\ i # k /\ j # k
       /\ agents[i].parentId = Some(agents[j].id)
       /\ agents[j].parentId = Some(agents[i].id)
       /\ agents[k].parentId = Some(agents[k].id)

\* the calls sa and sb share more than an instant
Overlap(sa, sb) ==
  spanStart(sa) < spanEnd(sb) /\ spanStart(sb) < spanEnd(sa)

\* C35: for every list of tool calls of one session, no two calls that are
\* drawn in the same lane overlap in time.
C35_NoLaneOverlap ==
  out.fn = "lanes" =>
    \A i, j \in 1..Len(out.val) :
      (i < j /\ out.val[i].lane = out.val[j].lane) =>
        ~Overlap(out.arg[out.val[i].span], out.arg[out.val[j].span])

\* C36: while the user's last click on a session that is not active is the one
\* that collapsed its panel, the session is absent from the expansion map,
\* also after a fetch issued by the earlier expand has completed.
C36_CollapseSticky ==
  (last.ev = "toggle_expand" /\ last.err) => last.id \notin DOMAIN expanded

\* C37: while the view is not mounted the expansion map, the timeline cache,
\* the retro cache and both in-flight sets are empty, also when fetches issued
\* before the unmount complete afterwards, so that the next mount starts from
\* empty caches.
C37_UnmountedIsEmpty ==
  ~mounted =>
    /\ expanded = EmptyMap /\ tlData = EmptyMap /\ retroData = EmptyMap
    /\ statsLoading = {} /\ retroLoading = {}

\* C38: when the retro fetch of the selected session completes in the stats
\* view, the redraw of that completion does not show the loading placeholder
\* for it: the id has left the in-flight set by then.
C38_RetroShownOnArrival ==
  (last.ev = "retro_done" /\ mounted /\ mode = "dag" /\ dagSel = Some(last.id))
    => last.data # "loading"

\* the id renderStats falls back to: the first active agent in roster order,
\* the first agent when none is active
FirstPick(ags) ==
  LET act == {i \in 1..Len(ags) : ags[i].status = "active"}
  IN IF act = {} THEN ags[1].id
     ELSE ags[CHOOSE i \in act : \A j \in act : i <= j].id

\* a redraw of the stats view over a roster that is not empty
StatsRedraw ==
  last'.ev = "redraw" /\ mounted' /\ mode' = "dag" /\ Len(agents) > 0

\* C39: after every redraw of the stats view over a non-empty roster the
\* selection names an agent of the roster; a selection that is null or names
\* no roster agent becomes the first active agent in roster order, or the
\* first agent when none is active; a selection that names a roster agent is
\* left as it is.
C39_SelectionValid ==
  [][StatsRedraw =>
       /\ dagSel' # None /\ dagSel'[1] \in RosterIds(agents)
       /\ IF dagSel # None /\ dagSel[1] \in RosterIds(agents)
          THEN dagSel' = dagSel
          ELSE dagSel' = Some(FirstPick(agents))]_vars

\* C39 witness: the stats view was redrawn over a roster whose first agent is
\* not active and whose second agent is, and the second is selected
C39_Witness ==
  /\ last.ev = "redraw" /\ mounted /\ mode = "dag" /\ Len(agents) = 2
  /\ agents[1].status # "active" /\ agents[2].status = "active"
  /\ dagSel = Some(agents[2].id)

\* C40: a zoom accepted from a drag lies inside the window that was active at
\* the mouseup: it starts no earlier, ends no later, and start < end.
C40_DragInsideWindow ==
  [][(last'.ev = "drag_up" /\ last'.drawn) =>
       LET win == getTimeWindow(St)
       IN /\ tlZoom' # None
          /\ win.start <= tlZoom'[1].start
          /\ tlZoom'[1].end <= win.end
          /\ tlZoom'[1].start < tlZoom'[1].end]_vars

\* C40 witness: a drag over the range of a label click has been accepted
C40_Witness ==
  /\ last.ev = "drag_up" /\ last.drawn /\ mounted
  /\ tlZoom # None /\ tlZoom[1].end - tlZoom[1].start < 100000

====
